---- MODULE Spec2Model ----
(***************************************************************************)
(* A model of the news_research frontend: the authentication gate          *)
(* (middleware, dashboard layout, login page, landing page), the API       *)
(* client's error propagation and the mutations of the dashboard pages.    *)
(***************************************************************************)
EXTENDS Integers, Sequences, FiniteSets, TLC

\* ------------------------------------------------------------------------
\* Bounds of the model
\* ------------------------------------------------------------------------

\* how many signIn calls the log keeps
MaxSignIn == 2

\* how many router.push calls the log keeps
MaxPush == 2

\* ------------------------------------------------------------------------
\* URLs.  A path is a sequence of characters; a run of letters that needs
\* no escaping ("dashboard") is written as one element.
\* ------------------------------------------------------------------------

\* null, told apart from every character sequence of the model
None == <<"null">>

\* no character
NoChar == ""

Root == <<"/">>

LoginPath == <<"/", "login">>

DashboardPath == <<"/", "dashboard">>

ArticlesPath == <<"/", "dashboard", "/", "articles">>

SettingsPath == <<"/", "dashboard", "/", "settings">>

\* a dashboard path with a "+" in a segment
PlusPath == <<"/", "dashboard", "/", "a", "+", "b">>

\* a dashboard path that already holds a percent escape
PercentPath == <<"/", "dashboard", "/", "%", "2", "F">>

\* a path that shares the prefix "/dashboard" but is not under it
NearPath == <<"/", "dashboardx">>

ApiPath == <<"/", "api", "/", "auth">>

DashboardPaths == {DashboardPath, ArticlesPath, SettingsPath, PlusPath, PercentPath}

PublicPaths == {Root, LoginPath, ApiPath, NearPath}

AllPaths == DashboardPaths \cup PublicPaths

\* encodeURIComponent leaves A-Z a-z 0-9 - _ . ! ~ * ' ( ) alone and
\* escapes every other character as %XX
EscapeOf(c) ==
  CASE c = "/" -> <<"%", "2", "F">>
    [] c = "%" -> <<"%", "2", "5">>
    [] c = "+" -> <<"%", "2", "B">>
    [] c = " " -> <<"%", "2", "0">>
    [] OTHER -> <<c>>

RECURSIVE encodeURIComponent(_)
encodeURIComponent(s) ==
  IF s = <<>> THEN <<>> ELSE EscapeOf(Head(s)) \o encodeURIComponent(Tail(s))

\* the character a %XX escape stands for
Unescape(h1, h2) ==
  CASE h1 = "2" /\ h2 = "F" -> "/"
    [] h1 = "2" /\ h2 = "5" -> "%"
    [] h1 = "2" /\ h2 = "B" -> "+"
    [] h1 = "2" /\ h2 = "0" -> " "
    [] OTHER -> NoChar

\* URLSearchParams.get: "+" reads as a space, %XX as the character it
\* escapes, a "%" that starts no escape is kept
RECURSIVE searchParamsDecode(_)
searchParamsDecode(s) ==
  IF s = <<>> THEN <<>>
  ELSE IF Head(s) = "+" THEN <<" ">> \o searchParamsDecode(Tail(s))
  ELSE IF Head(s) = "%" /\ Len(s) >= 3 /\ Unescape(s[2], s[3]) # NoChar
    THEN <<Unescape(s[2], s[3])>> \o searchParamsDecode(SubSeq(s, 4, Len(s)))
  ELSE <<Head(s)>> \o searchParamsDecode(Tail(s))

\* a URL: its path and the raw value of its callbackUrl query parameter
\* (None when the parameter is absent, <<>> when it is present and empty)
Url(p, cb) == [path |-> p, cb |-> cb]

\* searchParams.get("callbackUrl"): null (None) when absent
searchParamsGet(url) == IF url.cb = None THEN None ELSE searchParamsDecode(url.cb)

\* ------------------------------------------------------------------------
\* State
\* ------------------------------------------------------------------------

VARIABLES
  route,       \* the URL the browser shows
  status,      \* useSession().status
  authed,      \* whether the browser holds a session token
  requested,   \* the URL of the latest page request
  via,         \* how the browser came to route: load, redirect, push, link
  view,        \* the texts and controls on screen
  pushes,      \* sequence number of the router.push calls
  lastPush,    \* the latest router.push: the page that called it, its URL, the target
  signIns,     \* sequence number of the signIn calls
  lastSignIn,  \* the arguments of the latest signIn call
  page,        \* the dashboard page that is open
  pending,     \* the mutations of the open page that await their response
  lastCall,    \* the latest handler that ran, with the response it was given
  fx,          \* what the latest handler did
  timers,      \* the delayed invalidations that are waiting: query key, delay, age
  email,       \* the cached email of the open email detail page
  article,     \* the cached article of the open article detail page
  inFlight     \* per mutation, the requests sent whose response has not arrived

authVars ==
  <<route, status, authed, requested, via, view, pushes, lastPush, signIns, lastSignIn>>

pageVars == <<page, pending, lastCall, fx, timers, email, article, inFlight>>

\* the deduplication rule of the Analyst Agent
VARIABLES
  similarity,  \* cosine similarity of the new article to the nearest one, in hundredths
  verdict      \* the outcomes the rule gave for it ("pending" before it is applied)

dedupVars == <<similarity, verdict>>

\* scripts/deploy-gcp.sh and infra/terraform
VARIABLES
  sh,     \* the shell that runs deploy-gcp.sh: position, variables, commands issued
  host,   \* the operator's machine: installed tools, the files of the checkout
  cloud,  \* the GCP project: APIs, repositories, buckets, IAM bindings, secrets
  tf      \* Terraform: the resources in its state, the saved plan, the failed resources

deployVars == <<sh, host, cloud, tf>>

\* the paginated list pages of the dashboard
VARIABLES
  list,        \* the list page on screen: emails, articles, clusters or posts
  pageNumber,  \* its page state: useState(1)
  search,      \* the search text of the articles list: useState("")
  listQuery,   \* the query of the current key: loading, failed, or its response
  lastClick    \* the latest thing the user did on the list page

listVars == <<list, pageNumber, search, listQuery, lastClick>>

\* the dashboard-stats query of the overview
VARIABLES
  counts,      \* per endpoint, how its api.get settled ("pending" before)
  stats,       \* the data of the query: the four counts
  statsStatus  \* the status of the query: pending, success or error

statVars == <<counts, stats, statsStatus>>

\* the in-app links of the dashboard pages
VARIABLES
  screen,    \* the page component on screen
  location,  \* the path the browser shows
  origin,    \* the link that led here: the component that rendered it, its href
  history    \* the paths visited before this one, the latest last

navVars == <<screen, location, origin, history>>

vars == <<authVars, pageVars, dedupVars, deployVars, listVars, statVars, navVars>>

exceptNav == <<authVars, pageVars, dedupVars, deployVars, listVars, statVars>>

\* what the operations of one part leave alone
exceptAuth == <<pageVars, dedupVars, deployVars, listVars, statVars, navVars>>

exceptPages == <<authVars, dedupVars, deployVars, listVars, statVars, navVars>>

exceptDedup == <<authVars, pageVars, deployVars, listVars, statVars, navVars>>

exceptDeploy == <<authVars, pageVars, dedupVars, listVars, statVars, navVars>>

exceptLists == <<authVars, pageVars, dedupVars, deployVars, statVars, navVars>>

exceptStats == <<authVars, pageVars, dedupVars, deployVars, listVars, navVars>>

Statuses == {"loading", "unauthenticated", "authenticated"}

\* ------------------------------------------------------------------------
\* Routing and rendering
\* ------------------------------------------------------------------------

\* config.matcher of middleware.ts
Matcher == <<"/dashboard/:path*">>

\* whether a path matches the pattern "/dashboard/:path*": /dashboard itself
\* and everything below it
MatchesPattern(pattern, p) ==
  /\ pattern = "/dashboard/:path*"
  /\ Len(p) >= 2
  /\ SubSeq(p, 1, 2) = DashboardPath
  /\ (IF Len(p) = 2 THEN TRUE ELSE p[3] = "/")

\* a middleware that runs for every path that starts with "/dashboard"
MiddlewareRunsOnPrefix(p) == Len(p) >= 2 /\ p[1] = "/" /\ p[2] \in {"dashboard", "dashboardx"}

\* the middleware runs for the paths one of the matcher's patterns matches
MiddlewareRuns(p) == \E i \in 1..Len(Matcher) : MatchesPattern(Matcher[i], p)

\* a redirect that writes the path into the query unescaped
SignInUrlRaw(p) == Url(LoginPath, p)

\* the URL the unauthenticated visitor of path p is sent to
SignInUrl(p) == Url(LoginPath, encodeURIComponent(p))

\* the auth middleware: the URL the browser ends on when it requests url
Middleware(url, hasToken) ==
  IF MiddlewareRuns(url.path) /\ ~hasToken THEN SignInUrl(url.path) ELSE url

\* the routes app/dashboard/layout.tsx wraps: app/dashboard and below
UnderDashboard(p) ==
  /\ Len(p) >= 2
  /\ SubSeq(p, 1, 2) = DashboardPath
  /\ (IF Len(p) = 2 THEN TRUE ELSE p[3] = "/")

\* a layout that holds back its children only while the session loads
DashboardLayoutRenderNoGate(st) ==
  IF st = "loading" THEN {"Loading..."} ELSE {"AI News", "nav", "children"}

\* DashboardLayout: what it renders for a session status
DashboardLayoutRender(st) ==
  CASE st = "loading" -> {"Loading..."}
    [] st = "unauthenticated" -> {}
    [] OTHER -> {"AI News", "nav", "children"}

\* a login page that keeps the form on screen for an authenticated session
LoginContentRenderForm(st) ==
  IF st = "loading" THEN {"Loading..."} ELSE {"Sign In", "Continue with Google"}

\* LoginContent: what it renders for a session status
LoginContentRender(st) ==
  IF st = "loading" THEN {"Loading..."}
  ELSE IF st = "authenticated" THEN {}
  ELSE {"Sign In", "Continue with Google"}

\* Home: the landing page
HomeRender == {"AI News Aggregator", "Get Started"}

\* a landing page with a second link, straight to the dashboard
HomeLinksDashboard == {LoginPath, DashboardPath}

\* the targets of the links of the landing page
HomeLinks == {LoginPath}

\* what is on screen at a URL for a session status
Render(url, st) ==
  IF UnderDashboard(url.path) THEN DashboardLayoutRender(st)
  ELSE IF url.path = LoginPath THEN LoginContentRender(st)
  ELSE IF url.path = Root THEN HomeRender
  ELSE {}

\* a login page that ignores the callbackUrl parameter
callbackUrlIgnored(url) == DashboardPath

\* LoginContent's callbackUrl: searchParams.get("callbackUrl") || "/dashboard"
\* (null and the empty string are both falsy)
callbackUrl(url) ==
  IF searchParamsGet(url) = None \/ searchParamsGet(url) = <<>>
    THEN DashboardPath
    ELSE searchParamsGet(url)

\* the callbackUrl values a visitor may type after /login
TypedCallbacks == {None, <<>>, encodeURIComponent(ArticlesPath), encodeURIComponent(Root)}

\* the URLs a visitor may request
RequestUrls ==
  {Url(p, None) : p \in AllPaths} \cup {Url(LoginPath, cb) : cb \in TypedCallbacks}

\* ------------------------------------------------------------------------
\* The authentication gate: operations
\* ------------------------------------------------------------------------

AuthInit ==
  /\ route = Url(Root, None)
  /\ status = "loading"
  /\ authed \in BOOLEAN
  /\ requested = Url(Root, None)
  /\ via = "load"
  /\ view = Render(Url(Root, None), "loading")
  /\ pushes = 0
  /\ lastPush = [page |-> "none", from |-> Url(Root, None), target |-> Url(Root, None)]
  /\ signIns = 0
  /\ lastSignIn = [provider |-> "none", callbackUrl |-> None]

\* the visitor requests a URL (address bar, reload): the middleware answers,
\* the page loads and the session is looked up again
Navigate(url) ==
  /\ requested' = url
  /\ route' = Middleware(url, authed)
  /\ via' = IF Middleware(url, authed) = url THEN "load" ELSE "redirect"
  /\ status' = "loading"
  /\ view' = Render(route', status')
  /\ UNCHANGED <<authed, pushes, lastPush, signIns, lastSignIn>>
  /\ UNCHANGED exceptAuth

\* useSession finishes looking up the session
SessionResolved ==
  /\ status = "loading"
  /\ status' = IF authed THEN "authenticated" ELSE "unauthenticated"
  /\ view' = Render(route, status')
  /\ UNCHANGED <<route, authed, requested, via, pushes, lastPush, signIns, lastSignIn>>
  /\ UNCHANGED exceptAuth

\* the session ends while a page is open (sign-out, expiry)
SessionEnded ==
  /\ status = "authenticated"
  /\ authed' = FALSE
  /\ status' = "unauthenticated"
  /\ view' = Render(route, status')
  /\ UNCHANGED <<route, requested, via, pushes, lastPush, signIns, lastSignIn>>
  /\ UNCHANGED exceptAuth

\* a session appears while a page is open (the sign-in completed)
SessionStarted ==
  /\ status = "unauthenticated"
  /\ authed' = TRUE
  /\ status' = "authenticated"
  /\ view' = Render(route, status')
  /\ UNCHANGED <<route, requested, via, pushes, lastPush, signIns, lastSignIn>>
  /\ UNCHANGED exceptAuth

\* router.push from a page: a client-side navigation, the session status is kept
RouterPush(caller, target) ==
  /\ requested' = target
  /\ route' = Middleware(target, authed)
  /\ via' = "push"
  /\ pushes' = (pushes + 1) % (MaxPush + 1)
  /\ lastPush' = [page |-> caller, from |-> route, target |-> target]
  /\ view' = Render(route', status)
  /\ UNCHANGED <<status, authed, signIns, lastSignIn>>
  /\ UNCHANGED exceptAuth

\* DashboardLayout's effect: an unauthenticated session is sent to the login
\* page with the current pathname as callbackUrl
LayoutRedirect ==
  /\ UnderDashboard(route.path)
  /\ status = "unauthenticated"
  /\ RouterPush("layout", SignInUrl(route.path))

\* an effect that pushes as soon as the session is no longer loading
LoginEffectRunsUnlessLoading(st) == st # "loading"

\* the condition of LoginContent's effect
LoginEffectRuns(st) == st = "authenticated"

\* LoginContent's effect: an authenticated session is pushed to callbackUrl
LoginRedirect ==
  /\ route.path = LoginPath
  /\ LoginEffectRuns(status)
  /\ RouterPush("login", Url(callbackUrl(route), None))

\* a handler that always asks to come back to /dashboard
GoogleLoginArgsDefault(url) == [provider |-> "google", callbackUrl |-> DashboardPath]

\* the arguments handleGoogleLogin hands to signIn
GoogleLoginArgs(url) == [provider |-> "google", callbackUrl |-> callbackUrl(url)]

\* handleGoogleLogin: a click on "Continue with Google"
ClickGoogle ==
  /\ route.path = LoginPath
  /\ "Continue with Google" \in view
  /\ signIns' = (signIns + 1) % (MaxSignIn + 1)
  /\ lastSignIn' = GoogleLoginArgs(route)
  /\ UNCHANGED <<route, status, authed, requested, via, view, pushes, lastPush>>
  /\ UNCHANGED exceptAuth

\* a click on a link of the landing page: a client-side navigation
FollowHomeLink(href) ==
  /\ route.path = Root
  /\ requested' = Url(href, None)
  /\ route' = Middleware(Url(href, None), authed)
  /\ via' = "link"
  /\ view' = Render(route', status)
  /\ UNCHANGED <<status, authed, pushes, lastPush, signIns, lastSignIn>>
  /\ UNCHANGED exceptAuth

NextAuth ==
  \/ \E url \in RequestUrls : Navigate(url)
  \/ SessionResolved
  \/ SessionEnded
  \/ SessionStarted
  \/ LayoutRedirect
  \/ LoginRedirect
  \/ ClickGoogle
  \/ \E href \in HomeLinks : FollowHomeLink(href)

\* ------------------------------------------------------------------------
\* The authentication gate: properties
\* ------------------------------------------------------------------------

\* the characters encodeURIComponent never leaves in its result
Reserved == {"/", "+", " ", "?", "&", "=", "#"}

\* a query value that needs no further escaping
IsEncoded(s) == \A i \in 1..Len(s) : s[i] \notin Reserved

\* a router.push happens in this step
Pushed == pushes' # pushes

\* C1: DashboardLayout renders its children only when the session status is
\* 'authenticated': 'Loading...' alone while it is 'loading', nothing while it
\* is 'unauthenticated', the children and the navigation when 'authenticated'.
C1_LayoutGate ==
  UnderDashboard(route.path) =>
    /\ (status = "loading" => view = {"Loading..."})
    /\ (status = "unauthenticated" => view = {})
    /\ (status = "authenticated" => {"children", "nav"} \subseteq view)
    /\ ("children" \in view => status = "authenticated")

C1_Witness ==
  /\ UnderDashboard(route.path)
  /\ status = "unauthenticated"
  /\ view = {}

\* C2: an unauthenticated session on a route under /dashboard is redirected to
\* /login with the URL-encoded requested path as callbackUrl: a request
\* without a token ends on that URL, a session that ends on a dashboard page
\* has the layout's redirect pending, and the layout's redirect goes to that
\* URL (for /dashboard, /login?callbackUrl=%2Fdashboard).
C2_RequestRedirected ==
  (~authed /\ UnderDashboard(requested.path)) =>
    \/ /\ via = "redirect"
       /\ route.path = LoginPath
       /\ IsEncoded(route.cb)
       /\ searchParamsDecode(route.cb) = requested.path
       /\ (requested.path = DashboardPath => route.cb = <<"%", "2", "F", "dashboard">>)
    \/ /\ route = requested
       /\ status = "unauthenticated"
       /\ ENABLED LayoutRedirect

C2_LayoutRedirected ==
  (Pushed /\ UnderDashboard(route.path)) =>
    /\ status = "unauthenticated"
    /\ route'.path = LoginPath
    /\ IsEncoded(route'.cb)
    /\ searchParamsDecode(route'.cb) = route.path
    /\ (route.path = DashboardPath => route'.cb = <<"%", "2", "F", "dashboard">>)

\* C2: an unauthenticated session that reaches a route under /dashboard is
\* redirected to /login?callbackUrl=<the URL-encoded requested path>, by the
\* middleware on a request and by the layout on an open page.
C2_Redirect == [](C2_RequestRedirected) /\ [][C2_LayoutRedirected]_vars

C2_Witness ==
  /\ via = "push"
  /\ lastPush.page = "layout"
  /\ lastPush.from.path = ArticlesPath
  /\ route = Url(LoginPath, <<"%", "2", "F", "dashboard", "%", "2", "F", "articles">>)

\* C3 as stated: on the login page a push happens only when the status is
\* 'authenticated', and it goes to the callbackUrl search parameter if that is
\* present and otherwise to '/dashboard'.
C3_PushStep ==
  (Pushed /\ route.path = LoginPath) =>
    /\ status = "authenticated"
    /\ lastPush'.target.path =
         IF route.cb # None THEN searchParamsDecode(route.cb) ELSE DashboardPath

\* C3 as stated: the login page pushes only an authenticated session, to the
\* callbackUrl search parameter if present and otherwise to '/dashboard'.
C3_Original == [][C3_PushStep]_vars

\* C3 as amended: on the login page a push happens only when the status is
\* 'authenticated' (and then one is due); it goes to the callbackUrl search
\* parameter if that is present and not empty, and to '/dashboard' if the
\* parameter is absent or empty.
C3_AmendedStep ==
  (Pushed /\ route.path = LoginPath) =>
    /\ status = "authenticated"
    /\ lastPush'.page = "login"
    /\ lastPush'.target.path =
         IF route.cb # None /\ route.cb # <<>>
           THEN searchParamsDecode(route.cb)
           ELSE DashboardPath

C3_PushDue ==
  (route.path = LoginPath /\ status = "authenticated") => ENABLED LoginRedirect

\* C3 as amended: the login page pushes only an authenticated session (and
\* then a push is due), to the callbackUrl search parameter if it is present
\* and not empty, and to '/dashboard' if it is absent or empty.
C3_LoginPush == [](C3_PushDue) /\ [][C3_AmendedStep]_vars

C3_Witness ==
  /\ via = "push"
  /\ lastPush.page = "login"
  /\ lastPush.from = Url(LoginPath, <<>>)
  /\ route.path = DashboardPath

\* C4: the protected path survives the round trip: when the login page pushes
\* an authenticated session on, a session that the middleware or the layout
\* had sent to /login from path P lands on exactly P, and a session that
\* opened /login without a callbackUrl lands on /dashboard.
C4_Step ==
  (Pushed /\ route.path = LoginPath) =>
    /\ (via = "redirect" => route'.path = requested.path)
    /\ ((via = "push" /\ lastPush.page = "layout") => route'.path = lastPush.from.path)
    /\ ((via \in {"load", "link"} /\ route.cb = None) => route'.path = DashboardPath)
    /\ route'.cb = None

\* C4: a session sent to /login from path P under /dashboard lands on exactly
\* P once authenticated; one that opened /login directly lands on /dashboard.
C4_RoundTrip == [][C4_Step]_vars

C4_Witness ==
  /\ via = "push"
  /\ lastPush.page = "login"
  /\ lastPush.from = SignInUrl(PercentPath)
  /\ route = Url(PercentPath, None)
  /\ status = "authenticated"

\* C5: signIn is called only by a click on 'Continue with Google', with the
\* provider 'google' and the callbackUrl the login page pushes to once the
\* session is authenticated.
C5_Step ==
  (signIns' # signIns) =>
    /\ route.path = LoginPath
    /\ "Continue with Google" \in view
    /\ lastSignIn'.provider = "google"
    /\ lastSignIn'.callbackUrl = callbackUrl(route)
    /\ UNCHANGED <<route, status, authed, view, pushes, lastPush>>

C6_Render ==
  route.path = LoginPath =>
    /\ (status = "unauthenticated" <=> {"Sign In", "Continue with Google"} \subseteq view)
    /\ (status = "loading" => view = {"Loading..."})
    /\ (status = "authenticated" => view = {})

C6_Served ==
  (requested.path = LoginPath /\ via \in {"load", "link"}) => route = requested

C6_StayStep ==
  (route.path = LoginPath /\ status = "unauthenticated" /\ route'.path # LoginPath) =>
    /\ via' \in {"load", "redirect"}
    /\ ~Pushed

\* C6: the login page shows the form exactly when the status is
\* 'unauthenticated', 'Loading...' while 'loading', nothing when
\* 'authenticated', and an unauthenticated visitor is not redirected away.
C6_LoginPage == [](C6_Render /\ C6_Served) /\ [][C6_StayStep]_vars

C6_Witness ==
  /\ route.path = LoginPath
  /\ requested.path = LoginPath
  /\ via = "load"
  /\ status = "unauthenticated"
  /\ ~authed
  /\ view = {"Sign In", "Continue with Google"}

\* C7: the middleware matcher is the one-element list ['/dashboard/:path*']:
\* the middleware runs for the paths under /dashboard and for no other, so a
\* request is redirected only if it is for a path under /dashboard, and a
\* request for a public route is served as requested.
C7_Matcher ==
  /\ Len(Matcher) = 1
  /\ Matcher[1] = "/dashboard/:path*"
  /\ \A p \in AllPaths : MiddlewareRuns(p) <=> p \in DashboardPaths
  /\ (via = "redirect" => requested.path \in DashboardPaths)
  /\ ((requested.path \in PublicPaths /\ via \in {"load", "link"}) => route = requested)

C7_Witness ==
  /\ ~authed
  /\ via = "load"
  /\ requested.path = NearPath
  /\ route = requested
  /\ status = "unauthenticated"

\* C8: the landing page has no link to /dashboard; its only link, 'Get
\* Started', targets /login, so a click on the landing page leads to /login
\* and the dashboard is not entered from the landing page by a link.
C8_NoLink == DashboardPath \notin HomeLinks /\ HomeLinks \cap DashboardPaths = {}

C8_Step ==
  /\ (route.path = Root /\ via' = "link" /\ <<requested, via>>' # <<requested, via>>)
       => route'.path = LoginPath
  /\ (route.path = Root /\ UnderDashboard(route'.path)) => via' = "load"

\* C8: the landing page links only to /login, never to /dashboard, so its
\* links lead into the dashboard only through the login page.
C8_Landing == [](C8_NoLink) /\ [][C8_Step]_vars

C8_Witness ==
  /\ via = "link"
  /\ route = Url(LoginPath, None)
  /\ "Get Started" \notin view

\* ------------------------------------------------------------------------
\* ApiClient.request
\* ------------------------------------------------------------------------

\* a field the JSON body does not have
Absent == "<absent>"

\* the HTTP statuses the backend answers with
HttpStatuses == {200, 204, 404, 500}

\* the values of the body's string fields: absent, the empty string, a text
DetailValues == {Absent, "", "Not found."}

MessageValues == {Absent, "Server error"}

\* the values of the body's payload field (task_id, ai_summary, post_id):
\* absent, the empty string, a text
PayloadValues == {Absent, "", "value"}

\* the response bodies: a JSON object with optional detail, message and
\* payload fields (task_id, ai_summary, post_id), and a body that is no JSON
\* (empty, as with 204 No Content, or an HTML page)
Bodies ==
  [kind : {"object"}, detail : DetailValues, message : MessageValues, payload : PayloadValues]
    \cup
  [kind : {"text"}, detail : {Absent}, message : {Absent}, payload : {Absent}]

Responses == [status : HttpStatuses, body : Bodies]

\* Response.ok
ResponseOk(resp) == resp.status >= 200 /\ resp.status <= 299

\* what JavaScript's || takes for false in a string field
Falsy(v) == v = Absent \/ v = ""

EmptyObject == [kind |-> "object", detail |-> Absent, message |-> Absent, payload |-> Absent]

Resolved(value) == [kind |-> "resolved", message |-> Absent, value |-> value]

Rejected(message) == [kind |-> "rejected", message |-> message, value |-> EmptyObject]

\* the error object of a failed response: response.json().catch(() => ({}))
ErrorBody(resp) == IF resp.body.kind = "text" THEN EmptyObject ELSE resp.body

\* the message of the Error thrown for a failed response:
\* error.detail || error.message || `HTTP ${response.status}`
ErrorMessage(resp) ==
  IF ~Falsy(ErrorBody(resp).detail) THEN ErrorBody(resp).detail
  ELSE IF ~Falsy(ErrorBody(resp).message) THEN ErrorBody(resp).message
  ELSE "HTTP " \o ToString(resp.status)

\* ApiClient.request: how the promise settles for a response
request(resp) ==
  IF ~ResponseOk(resp) THEN Rejected(ErrorMessage(resp))
  ELSE IF resp.body.kind = "text" THEN Rejected("SyntaxError: Unexpected end of JSON input")
  ELSE Resolved(resp.body)

\* ------------------------------------------------------------------------
\* The mutations of the dashboard pages
\* ------------------------------------------------------------------------

\* how many delayed invalidations may be waiting
MaxTimers == 2

\* what a handler does: the requests it issues, the toasts it shows, the
\* query keys it invalidates or writes, the routes it pushes and the query
\* keys it schedules for a delayed invalidation
NoEffects ==
  [requests |-> {}, toasts |-> <<>>, invalidate |-> {}, setData |-> {}, push |-> {},
   timers |-> {}]

\* toast({title, description, variant}); the variant is "default" if not given
Toast(title, description, variant) ==
  [title |-> title, description |-> description, variant |-> variant]

Toasts(e, t) == [e EXCEPT !.toasts = Append(e.toasts, t)]

Invalidate(e, key) == [e EXCEPT !.invalidate = e.invalidate \cup {key}]

\* a handler that refreshes the stats at once
OverviewSyncOnSuccessImmediate(data) ==
  Invalidate(Toasts(NoEffects, Toast("Email sync started", Absent, "default")),
             "dashboard-stats")

\* DashboardPage.syncEmails
OverviewSyncOnSuccess(data) ==
  [Toasts(NoEffects,
          Toast("Email sync started",
                IF data.kind = "object" /\ ~Falsy(data.payload)
                  THEN "Task ID" ELSE "Syncing emails in background...",
                "default"))
     EXCEPT !.timers = {[key |-> "dashboard-stats", delay |-> 5000]}]

OverviewSyncOnError(message) == Toasts(NoEffects, Toast("Sync failed", message, "destructive"))

\* EmailsPage.syncEmails
EmailsSyncOnSuccess(data) ==
  [Toasts(NoEffects, Toast("Email sync started", Absent, "default"))
     EXCEPT !.timers = {[key |-> "emails", delay |-> 5000]}]

EmailsSyncOnError(message) ==
  Toasts(NoEffects, Toast("Failed to sync emails", Absent, "destructive"))

\* the cache entry of a query that has no data yet
Undefined == [subject |-> Absent, is_processed |-> FALSE, ai_summary |-> Absent]

\* the emails the backend may return for GET /emails/{id}/
Emails ==
  [subject : {"Weekly AI digest"}, is_processed : BOOLEAN, ai_summary : PayloadValues]

\* an updater that keeps the summary only
EmailSummaryUpdaterReplaces(old, data) ==
  IF old # Undefined
    THEN [subject |-> Absent, is_processed |-> FALSE, ai_summary |-> data.payload]
    ELSE old

\* the updater generateSummary passes to setQueryData:
\* old ? { ...old, ai_summary: data.ai_summary } : old
EmailSummaryUpdater(old, data) ==
  IF old # Undefined THEN [old EXCEPT !.ai_summary = data.payload] ELSE old

\* EmailDetailPage.generateSummary
EmailSummaryOnSuccess(data) ==
  IF data.kind = "object" /\ ~Falsy(data.payload)
    THEN [Toasts(NoEffects,
                 Toast("Summary generated", "The AI summary has been created", "default"))
            EXCEPT !.setData = {"email:id"}]
    ELSE NoEffects

EmailSummaryOnError(message) ==
  Toasts(NoEffects, Toast("Failed to generate summary", message, "destructive"))

\* ArticlesPage.processPending
ProcessPendingOnSuccess(data) ==
  Invalidate(Toasts(NoEffects,
                    Toast("Processing started", "Pending articles are being scraped",
                          "default")),
             "articles")

ProcessPendingOnError(message) ==
  Toasts(NoEffects, Toast("Failed to process articles", Absent, "destructive"))

\* the article detail page before its query has data
NoArticle == [scrape_status |-> Absent, content_text |-> Absent]

\* the articles the backend may return for GET /articles/{id}/
Articles ==
  [scrape_status : {"pending", "success", "failed"}, content_text : {Absent, "", "text"}]

\* ArticleDetailPage.rescrape
RescrapeOnSuccess(data) ==
  Invalidate(Toasts(NoEffects,
                    Toast("Rescrape started", "Article is being re-scraped", "default")),
             "article:id")

RescrapeOnError(message) ==
  Toasts(NoEffects, Toast("Failed to rescrape", Absent, "destructive"))

\* ClustersPage.generateSummary
ClustersSummaryOnSuccess(data) ==
  Invalidate(Toasts(NoEffects, Toast("Summary generation started", Absent, "default")),
             "clusters")

ClustersSummaryOnError(message) ==
  Toasts(NoEffects, Toast("Failed to generate summary", Absent, "destructive"))

\* ClusterDetailPage.generateSummary
ClusterSummaryOnSuccess(data) ==
  Invalidate(Toasts(NoEffects, Toast("Summary generation started", Absent, "default")),
             "cluster:id")

ClusterSummaryOnError(message) ==
  Toasts(NoEffects, Toast("Failed to generate summary", Absent, "destructive"))

\* ClusterDetailPage.generatePost
ClusterPostOnSuccess(data) ==
  [Toasts(NoEffects, Toast("Blog post generation started", Absent, "default"))
     EXCEPT !.push = IF data.kind = "object" /\ ~Falsy(data.payload)
                       THEN {"/dashboard/posts/{post_id}"} ELSE {}]

ClusterPostOnError(message) ==
  Toasts(NoEffects, Toast("Failed to generate blog post", Absent, "destructive"))

\* NewPostPage.generatePost
NewPostOnSuccess(data) ==
  [Toasts(NoEffects, Toast("Blog post generation started", Absent, "default"))
     EXCEPT !.push = IF data.kind = "object" /\ ~Falsy(data.payload)
                       THEN {"/dashboard/posts/{post_id}"} ELSE {"/dashboard/posts"}]

NewPostOnError(message) ==
  Toasts(NoEffects, Toast("Failed to generate blog post", Absent, "destructive"))

\* PostDetailPage.generateImage
GenerateImageOnSuccess(data) ==
  Invalidate(Toasts(NoEffects, Toast("Image generation started", Absent, "default")),
             "post:id")

GenerateImageOnError(message) ==
  Toasts(NoEffects, Toast("Failed to generate image", Absent, "destructive"))

\* PostDetailPage.publishPost
PublishOnSuccess(data) ==
  Invalidate(Toasts(NoEffects, Toast("Post published successfully", Absent, "default")),
             "post:id")

PublishOnError(message) ==
  Toasts(NoEffects, Toast("Failed to publish post", Absent, "destructive"))

\* PostDetailPage.archivePost
ArchiveOnSuccess(data) ==
  Invalidate(Toasts(NoEffects, Toast("Post archived", Absent, "default")), "post:id")

ArchiveOnError(message) ==
  Toasts(NoEffects, Toast("Failed to archive post", Absent, "destructive"))

\* PostEditPage.updatePost
UpdatePostOnSuccess(data) ==
  Invalidate(Toasts(NoEffects, Toast("Post saved successfully", Absent, "default")),
             "post:id")

\* a save handler that also refreshes the post after a failure
UpdatePostOnErrorRefreshes(message) ==
  Invalidate(Toasts(NoEffects, Toast("Failed to save post", Absent, "destructive")),
             "post:id")

UpdatePostOnError(message) ==
  Toasts(NoEffects, Toast("Failed to save post", Absent, "destructive"))

\* the mutations: the page each belongs to, and the request of its mutationFn
Mutation(pg, name, method, endpoint) ==
  [page |-> pg, name |-> name, method |-> method, endpoint |-> endpoint]

Mutations ==
  { Mutation("overview", "syncEmails", "POST", "/emails/sync/"),
    Mutation("emails", "syncEmails", "POST", "/emails/sync/"),
    Mutation("emailDetail", "generateSummary", "POST", "/emails/{id}/generate_summary/"),
    Mutation("articles", "processPending", "POST", "/articles/process_pending/"),
    Mutation("articleDetail", "rescrape", "POST", "/articles/{id}/rescrape/"),
    Mutation("clusters", "generateSummary", "POST", "/clusters/{id}/generate_summary/"),
    Mutation("clusterDetail", "generateSummary", "POST", "/clusters/{id}/generate_summary/"),
    Mutation("clusterDetail", "generatePost", "POST", "/clusters/{id}/generate_post/"),
    Mutation("newPost", "generatePost", "POST", "/clusters/{id}/generate_post/"),
    Mutation("postDetail", "generateImage", "POST", "/posts/{id}/generate_image/"),
    Mutation("postDetail", "publishPost", "POST", "/posts/{id}/publish/"),
    Mutation("postDetail", "archivePost", "PATCH", "/posts/{id}/"),
    Mutation("postEdit", "updatePost", "PATCH", "/posts/{id}/") }

\* the dashboard pages; the posts list has no mutation
Pages == {mu.page : mu \in Mutations} \cup {"posts"}

MutationsOf(pg) == {mu \in Mutations : mu.page = pg}

\* the onSuccess handler of a mutation
OnSuccess(mu, data) ==
  CASE mu.page = "overview" -> OverviewSyncOnSuccess(data)
    [] mu.page = "emails" -> EmailsSyncOnSuccess(data)
    [] mu.page = "emailDetail" -> EmailSummaryOnSuccess(data)
    [] mu.page = "articles" -> ProcessPendingOnSuccess(data)
    [] mu.page = "articleDetail" -> RescrapeOnSuccess(data)
    [] mu.page = "clusters" -> ClustersSummaryOnSuccess(data)
    [] mu.page = "clusterDetail" /\ mu.name = "generateSummary" -> ClusterSummaryOnSuccess(data)
    [] mu.page = "clusterDetail" /\ mu.name = "generatePost" -> ClusterPostOnSuccess(data)
    [] mu.page = "newPost" -> NewPostOnSuccess(data)
    [] mu.page = "postDetail" /\ mu.name = "generateImage" -> GenerateImageOnSuccess(data)
    [] mu.page = "postDetail" /\ mu.name = "publishPost" -> PublishOnSuccess(data)
    [] mu.page = "postDetail" /\ mu.name = "archivePost" -> ArchiveOnSuccess(data)
    [] OTHER -> UpdatePostOnSuccess(data)

\* the onError handler of a mutation
OnError(mu, message) ==
  CASE mu.page = "overview" -> OverviewSyncOnError(message)
    [] mu.page = "emails" -> EmailsSyncOnError(message)
    [] mu.page = "emailDetail" -> EmailSummaryOnError(message)
    [] mu.page = "articles" -> ProcessPendingOnError(message)
    [] mu.page = "articleDetail" -> RescrapeOnError(message)
    [] mu.page = "clusters" -> ClustersSummaryOnError(message)
    [] mu.page = "clusterDetail" /\ mu.name = "generateSummary" -> ClusterSummaryOnError(message)
    [] mu.page = "clusterDetail" /\ mu.name = "generatePost" -> ClusterPostOnError(message)
    [] mu.page = "newPost" -> NewPostOnError(message)
    [] mu.page = "postDetail" /\ mu.name = "generateImage" -> GenerateImageOnError(message)
    [] mu.page = "postDetail" /\ mu.name = "publishPost" -> PublishOnError(message)
    [] mu.page = "postDetail" /\ mu.name = "archivePost" -> ArchiveOnError(message)
    [] OTHER -> UpdatePostOnError(message)

\* useMutation: the handler that runs when the promise of mutationFn settles
Handler(mu, outcome) ==
  IF outcome.kind = "rejected" THEN OnError(mu, outcome.message)
  ELSE OnSuccess(mu, outcome.value)

\* the page a pushed route shows
PageOf(target) == IF target = "/dashboard/posts" THEN "posts" ELSE "postDetail"

NoMutation == Mutation("none", "none", "none", "none")

NoResponse == [status |-> 0, body |-> EmptyObject]

\* no timer
NoTimer == [key |-> Absent, delay |-> 0, age |-> 0]

Call(kind, mu, resp) ==
  [kind |-> kind, mutation |-> mu, resp |-> resp, timer |-> NoTimer,
   control |-> Absent,
   outcome |-> IF kind = "settle" THEN request(resp) ELSE Resolved(EmptyObject)]

PagesInit ==
  /\ page = "overview"
  /\ pending = {}
  /\ lastCall = Call("none", NoMutation, NoResponse)
  /\ fx = NoEffects
  /\ timers = <<>>
  /\ email = Undefined
  /\ article = NoArticle
  /\ inFlight = [mu \in Mutations |-> 0]

\* the user opens a dashboard page (between requests); an email detail page
\* starts without its email
OpenPage(pg) ==
  /\ pending = {}
  /\ page' = pg
  /\ lastCall' = Call("open", NoMutation, NoResponse)
  /\ fx' = NoEffects
  /\ email' = Undefined
  /\ article' = NoArticle
  /\ UNCHANGED <<pending, timers, inFlight>>
  /\ UNCHANGED exceptPages

\* the query of the email detail page resolves
EmailLoaded(e) ==
  /\ page = "emailDetail"
  /\ email = Undefined
  /\ email' = e
  /\ lastCall' = Call("query", NoMutation, NoResponse)
  /\ fx' = NoEffects
  /\ UNCHANGED <<page, pending, timers, article, inFlight>>
  /\ UNCHANGED exceptPages

\* the query of the article detail page resolves: the first load, or the
\* refetch after the rescrape handler invalidated it
ArticleLoaded(a) ==
  /\ page = "articleDetail"
  /\ IF article = NoArticle THEN TRUE ELSE "article:id" \in fx.invalidate
  /\ article' = a
  /\ lastCall' = Call("query", NoMutation, NoResponse)
  /\ fx' = NoEffects
  /\ UNCHANGED <<page, pending, timers, email, inFlight>>
  /\ UNCHANGED exceptPages

\* the text of the 'Full Content' card of a loaded article
FullContent(a) ==
  IF ~Falsy(a.content_text) THEN a.content_text
  ELSE IF a.scrape_status = "pending" THEN "Article content is being scraped..."
  ELSE IF a.scrape_status = "failed"
    THEN "Failed to scrape article content. Try clicking 'Retry Scrape' above."
  ELSE "No content available"

\* every control is on screen whatever the page has loaded
ControlRenderedAlways(mu) == TRUE

\* whether the control of a mutation is on screen: the email detail page
\* shows 'Generate Summary' for a loaded email that has no summary, the
\* article detail page shows 'Retry Scrape' for a loaded article whose scrape
\* failed
ControlRendered(mu) ==
  IF mu.page = "emailDetail" THEN email # Undefined /\ Falsy(email.ai_summary)
  ELSE IF mu.page = "articleDetail"
    THEN article # NoArticle /\ article.scrape_status = "failed"
  ELSE TRUE

\* a control that stays enabled while its mutation is pending
ControlEnabledAlways(mu) == mu \in Mutations

\* whether the control of a mutation is enabled: disabled={mutation.isPending}
ControlEnabled(mu) == mu \notin pending

\* the controls whose onClick calls mutate() of a mutation: the emails list
\* has two sync buttons, the cluster detail page two 'Generate Summary'
\* buttons, the clusters list one button per cluster card
Controls(mu) ==
  CASE mu.page = "emails" -> {"Sync Emails", "Sync Now"}
    [] mu.page = "clusters" -> {"card 1", "card 2"}
    [] mu.page = "clusterDetail" /\ mu.name = "generateSummary" ->
         {"Generate Summary (header)", "Generate Summary (card)"}
    [] OTHER -> {mu.name}

\* only the first button of a page carries the disabled prop
ControlDisabledHeaderOnly(mu, c) ==
  ~ControlEnabled(mu) /\ c \in {"Sync Emails", "card 1", "Generate Summary (header)", mu.name}

\* the disabled prop of a control: every one is {mutation.isPending}
ControlDisabled(mu, c) == ~ControlEnabled(mu)

\* a click on a control of a mutation: mutate() issues the request
Mutate(mu, c) ==
  /\ mu \in MutationsOf(page)
  /\ c \in Controls(mu)
  /\ ControlRendered(mu)
  /\ ~ControlDisabled(mu, c)
  /\ Len(timers) + Cardinality({m \in pending : m.name = "syncEmails"}) < MaxTimers
  /\ pending' = pending \cup {mu}
  /\ inFlight' = [inFlight EXCEPT ![mu] = @ + 1]
  /\ lastCall' = [Call("mutate", mu, NoResponse) EXCEPT !.control = c]
  /\ fx' = [NoEffects EXCEPT !.requests = {[method |-> mu.method, endpoint |-> mu.endpoint]}]
  /\ UNCHANGED <<page, timers, email, article>>
  /\ UNCHANGED exceptPages

\* the response of a pending mutation arrives: request settles the promise
\* and the mutation's handler runs; a pushed route opens its page, a
\* setTimeout starts a timer, setQueryData writes the cached email
Settle(mu, resp) ==
  /\ mu \in pending
  /\ (Handler(mu, request(resp)).push # {} => pending = {mu})
  /\ lastCall' = Call("settle", mu, resp)
  /\ fx' = Handler(mu, request(resp))
  /\ pending' = pending \ {mu}
  /\ inFlight' = [inFlight EXCEPT ![mu] = @ - 1]
  /\ page' = IF fx'.push = {} THEN page ELSE PageOf(CHOOSE t \in fx'.push : TRUE)
  /\ timers' = IF fx'.timers = {} THEN timers
               ELSE Append(timers, [key |-> (CHOOSE t \in fx'.timers : TRUE).key,
                                    delay |-> (CHOOSE t \in fx'.timers : TRUE).delay,
                                    age |-> 0])
  /\ email' = IF fx'.setData = {} THEN email
              ELSE EmailSummaryUpdater(email, request(resp).value)
  /\ UNCHANGED article
  /\ UNCHANGED exceptPages

\* 2.5 seconds pass; a timer that is due does not age further
Tick ==
  /\ \E i \in 1..Len(timers) : timers[i].age < timers[i].delay
  /\ timers' = [i \in 1..Len(timers) |->
                  IF timers[i].age < timers[i].delay
                    THEN [timers[i] EXCEPT !.age = @ + 2500] ELSE timers[i]]
  /\ lastCall' = Call("tick", NoMutation, NoResponse)
  /\ fx' = NoEffects
  /\ UNCHANGED <<page, pending, email, article, inFlight>>
  /\ UNCHANGED exceptPages

\* a delayed invalidation is due: setTimeout(..., 5000) runs its callback
TimerFires ==
  /\ timers # <<>>
  /\ Head(timers).age >= Head(timers).delay
  /\ lastCall' = [Call("timer", NoMutation, NoResponse) EXCEPT !.timer = Head(timers)]
  /\ fx' = Invalidate(NoEffects, Head(timers).key)
  /\ timers' = Tail(timers)
  /\ UNCHANGED <<page, pending, email, article, inFlight>>
  /\ UNCHANGED exceptPages

NextPages ==
  \/ \E pg \in Pages : OpenPage(pg)
  \/ \E e \in Emails : EmailLoaded(e)
  \/ \E a \in Articles : ArticleLoaded(a)
  \/ Tick
  \/ \E mu \in Mutations : \E c \in Controls(mu) : Mutate(mu, c)
  \/ \E mu \in Mutations, resp \in Responses : Settle(mu, resp)
  \/ TimerFires

\* ------------------------------------------------------------------------
\* The deduplication rule (README, "Deduplication Logic")
\* ------------------------------------------------------------------------

\* ">0.95 similarity: same article", in hundredths
DuplicateThreshold == 95

\* ">0.85 similarity: same topic" and "<0.85 similarity: new topic", in hundredths
ClusterThreshold == 85

\* the cosine similarities 0.00 .. 1.00, in hundredths
Similarities == 0..100

\* the outcomes the documented rule gives for a similarity: its three lines,
\* the first that applies
DedupOutcomes(s) ==
  IF s > DuplicateThreshold THEN {"merge as duplicate"}
  ELSE IF s > ClusterThreshold THEN {"cluster together"}
  ELSE IF s < ClusterThreshold THEN {"create new cluster"}
  ELSE {}

DedupInit == similarity \in Similarities /\ verdict = {"pending"}

\* no article is being classified
DedupIdle == similarity = 0 /\ verdict = {"pending"}

\* the rule is applied to the article
Classify ==
  /\ verdict = {"pending"}
  /\ verdict' = DedupOutcomes(similarity)
  /\ UNCHANGED similarity
  /\ UNCHANGED exceptDedup

\* the next article arrives, with its similarity to the nearest existing one
NextArticle(s) ==
  /\ verdict # {"pending"}
  /\ similarity' = s
  /\ verdict' = {"pending"}
  /\ UNCHANGED exceptDedup

NextDedup == Classify \/ \E s \in Similarities : NextArticle(s)

\* ------------------------------------------------------------------------
\* scripts/deploy-gcp.sh
\* ------------------------------------------------------------------------

\* how many times the operator runs the script
MaxRuns == 2

\* the tools check_prerequisites looks for
Tools == {"gcloud", "terraform", "docker"}

\* the project IDs the operator may set or type ("" for none)
ProjectIds == {"", "news-prod"}

\* the lines the operator may type at a prompt: words and blanks
Lines == {<<"yes">>, <<"no">>, <<"YES">>, <<>>, <<" ", "yes">>}

\* the word "yes" as read stores it
Yes == <<"yes">>

\* read -r VAR: the line without its leading and trailing blanks
RECURSIVE read(_)
read(line) ==
  IF line = <<>> THEN <<>>
  ELSE IF Head(line) = " " THEN read(Tail(line))
  ELSE IF line[Len(line)] = " " THEN read(SubSeq(line, 1, Len(line) - 1))
  ELSE line

\* a command the script issues, with its main argument
Cmd(c, a) == [cmd |-> c, arg |-> a]

\* the exit status of a script that has not exited
Running == -1

\* the shell at the start of a run, with PROJECT_ID taken from the environment
StartShell(projectId, run) ==
  [pc |-> "check_prerequisites", exitStatus |-> Running, run |-> run,
   PROJECT_ID |-> projectId, BUCKET_NAME |-> "",
   GOOGLE_OAUTH_CLIENT_ID |-> "", GOOGLE_API_KEY |-> "",
   BUILD_IMAGES |-> <<>>, RUN_TF |-> <<>>, APPLY_CONFIRM |-> <<>>,
   exported |-> {}, ran |-> {}, cmds |-> {}, last |-> {}]

\* a function of the script has run: it issued commands and the script goes on
Step(s, fn, next, commands) ==
  [s EXCEPT !.pc = next, !.ran = @ \cup {fn}, !.cmds = @ \cup commands, !.last = commands]

\* exit <code>, or a failed command under set -e
Exit(s, fn, code, commands) ==
  [Step(s, fn, "exited", commands) EXCEPT !.exitStatus = code]

\* a check that forgets docker
PrerequisitesMetNoDocker(installed) == {"gcloud", "terraform"} \subseteq installed

\* check_prerequisites: command -v gcloud, terraform, docker
PrerequisitesMet(installed) == {"gcloud", "terraform", "docker"} \subseteq installed

check_prerequisites ==
  /\ sh.pc = "check_prerequisites"
  /\ sh' = IF PrerequisitesMet(host.installed)
             THEN Step(sh, "check_prerequisites", "get_project_id", {})
             ELSE Exit(sh, "check_prerequisites", 1, {})
  /\ UNCHANGED <<host, cloud, tf>>
  /\ UNCHANGED exceptDeploy

\* get_project_id: PROJECT_ID from the environment, else read from the operator
get_project_id ==
  /\ sh.pc = "get_project_id"
  /\ \E typed \in ProjectIds :
       LET id == IF sh.PROJECT_ID = "" THEN typed ELSE sh.PROJECT_ID
       IN  sh' = IF id = ""
                   THEN Exit(sh, "get_project_id", 1, {})
                   ELSE [Step(sh, "get_project_id", "configure_gcloud", {})
                           EXCEPT !.PROJECT_ID = id]
  /\ UNCHANGED <<host, cloud, tf>>
  /\ UNCHANGED exceptDeploy

\* gcloud billing projects describe ... || echo "false"
BILLING_ENABLED(c) == IF c.billingEnabled THEN "True" ELSE "false"

\* configure_gcloud: gcloud auth login if no account is active, gcloud config
\* set project, then the billing check
configure_gcloud ==
  /\ sh.pc = "configure_gcloud"
  /\ LET commands ==
           (IF host.authenticated THEN {} ELSE {Cmd("gcloud auth login", "")})
             \cup {Cmd("gcloud config set project", sh.PROJECT_ID)}
     IN  sh' = IF BILLING_ENABLED(cloud) # "True"
                 THEN Exit(sh, "configure_gcloud", 1, commands)
                 ELSE Step(sh, "configure_gcloud", "enable_apis", commands)
  /\ host' = [host EXCEPT !.authenticated = TRUE, !.project = sh.PROJECT_ID]
  /\ UNCHANGED <<cloud, tf>>
  /\ UNCHANGED exceptDeploy

\* APIS of enable_apis
APIS ==
  {"run.googleapis.com", "sqladmin.googleapis.com", "redis.googleapis.com",
   "secretmanager.googleapis.com", "cloudbuild.googleapis.com",
   "artifactregistry.googleapis.com", "compute.googleapis.com",
   "vpcaccess.googleapis.com", "cloudscheduler.googleapis.com",
   "aiplatform.googleapis.com", "gmail.googleapis.com", "iamcredentials.googleapis.com"}

\* enable_apis: gcloud services enable for each API
enable_apis ==
  /\ sh.pc = "enable_apis"
  /\ sh' = Step(sh, "enable_apis", "create_artifact_registry",
                {Cmd("gcloud services enable", api) : api \in APIS})
  /\ cloud' = [cloud EXCEPT !.apis = @ \cup APIS]
  /\ UNCHANGED <<host, tf>>
  /\ UNCHANGED exceptDeploy

\* a check that never finds the repository
RepositoryExistsNever(c, name) == name \in {}

\* gcloud artifacts repositories describe <name>
RepositoryExists(c, name) == name \in c.repositories

\* create_artifact_registry: create ai-news-images unless it exists
create_artifact_registry ==
  /\ sh.pc = "create_artifact_registry"
  /\ IF RepositoryExists(cloud, "ai-news-images")
       THEN /\ sh' = Step(sh, "create_artifact_registry", "create_terraform_state_bucket", {})
            /\ UNCHANGED cloud
       ELSE /\ sh' = Step(sh, "create_artifact_registry", "create_terraform_state_bucket",
                          {Cmd("gcloud artifacts repositories create", "ai-news-images")})
            /\ cloud' = [cloud EXCEPT !.repositories = @ \cup {"ai-news-images"}]
  /\ UNCHANGED <<host, tf>>
  /\ UNCHANGED exceptDeploy

\* a check that never finds the bucket
BucketExistsNever(c, name) == name \in {}

\* gsutil ls gs://<name>
BucketExists(c, name) == name \in c.buckets

\* sed "s/bucket = \"ai-news-aggregator-tfstate\"/bucket = \"$BUCKET_NAME\"/"
\* applied to the bucket line of the gcs backend block
SedBackend(bucket, name) == IF bucket = "ai-news-aggregator-tfstate" THEN name ELSE bucket

\* create_terraform_state_bucket: make <PROJECT_ID>-tfstate unless it exists,
\* then rewrite the backend block of infra/terraform/main.tf
create_terraform_state_bucket ==
  /\ sh.pc = "create_terraform_state_bucket"
  /\ LET name == sh.PROJECT_ID \o "-tfstate"
         commands ==
           IF BucketExists(cloud, name) THEN {}
           ELSE {Cmd("gsutil mb", name), Cmd("gsutil versioning set on", name)}
     IN  /\ sh' = [Step(sh, "create_terraform_state_bucket",
                        "configure_cloud_build_permissions", commands)
                     EXCEPT !.BUCKET_NAME = name]
         /\ cloud' = IF BucketExists(cloud, name) THEN cloud
                     ELSE [cloud EXCEPT !.buckets = @ \cup {name}]
         /\ host' = [host EXCEPT !.backendBucket = SedBackend(@, name)]
  /\ UNCHANGED tf
  /\ UNCHANGED exceptDeploy

\* ROLES of configure_cloud_build_permissions
ROLES == {"roles/run.admin", "roles/iam.serviceAccountUser", "roles/secretmanager.secretAccessor"}

\* configure_cloud_build_permissions: one binding per role
configure_cloud_build_permissions ==
  /\ sh.pc = "configure_cloud_build_permissions"
  /\ sh' = Step(sh, "configure_cloud_build_permissions", "generate_secrets",
                {Cmd("gcloud projects add-iam-policy-binding", role) : role \in ROLES})
  /\ cloud' = [cloud EXCEPT !.iam = @ \cup ROLES]
  /\ UNCHANGED <<host, tf>>
  /\ UNCHANGED exceptDeploy

\* a check that never finds the secret
SecretExistsNever(c, name) == name \in {}

\* gcloud secrets describe <name>
SecretExists(c, name) == name \in c.secrets

\* create_secret: a new version if the secret exists, else the secret; st is
\* the project with the commands issued so far
create_secret(st, name) ==
  IF SecretExists(st.cloud, name)
    THEN [cloud |-> st.cloud,
          cmds |-> st.cmds \cup {Cmd("gcloud secrets versions add", name)}]
    ELSE [cloud |-> [st.cloud EXCEPT !.secrets = @ \cup {name},
                                     !.secretCreates = @ \cup {<<"script", name>>}],
          cmds |-> st.cmds \cup {Cmd("gcloud secrets create", name)}]

\* create_secret called for each name in turn
RECURSIVE create_secrets(_, _)
create_secrets(st, names) ==
  IF names = <<>> THEN st
  ELSE create_secrets(create_secret(st, Head(names)), Tail(names))

\* generate_secrets: four generated values, stored and exported for Terraform
generate_secrets ==
  /\ sh.pc = "generate_secrets"
  /\ LET st == create_secrets([cloud |-> cloud, cmds |-> {}],
                              <<"django-secret-key", "encryption-key", "nextauth-secret",
                                "database-password">>)
     IN  /\ sh' = [Step(sh, "generate_secrets", "prompt_for_manual_secrets", st.cmds)
                     EXCEPT !.exported = @ \cup {"TF_VAR_django_secret_key",
                                                 "TF_VAR_encryption_key",
                                                 "TF_VAR_nextauth_secret",
                                                 "TF_VAR_database_password"}]
         /\ cloud' = st.cloud
  /\ UNCHANGED <<host, tf>>
  /\ UNCHANGED exceptDeploy

\* prompt_for_manual_secrets: the OAuth client and the API key, from the
\* environment or typed; an empty value skips the secret
prompt_for_manual_secrets ==
  /\ sh.pc = "prompt_for_manual_secrets"
  /\ \E clientId \in {"", "client-id"}, apiKey \in {"", "api-key"} :
       LET oauth == IF clientId # ""
                      THEN <<"google-oauth-client-id", "google-oauth-client-secret">>
                      ELSE <<>>
           key == IF apiKey # "" THEN <<"google-api-key">> ELSE <<>>
           st == create_secrets([cloud |-> cloud, cmds |-> {}], oauth \o key)
       IN  /\ sh' = [Step(sh, "prompt_for_manual_secrets", "update_terraform_vars", st.cmds)
                       EXCEPT !.GOOGLE_OAUTH_CLIENT_ID = clientId,
                              !.GOOGLE_API_KEY = apiKey,
                              !.exported =
                                 @ \cup (IF clientId # ""
                                           THEN {"TF_VAR_google_oauth_client_id",
                                                 "TF_VAR_google_oauth_secret"}
                                           ELSE {})
                                   \cup (IF apiKey # "" THEN {"TF_VAR_google_api_key"}
                                         ELSE {})]
           /\ cloud' = st.cloud
  /\ UNCHANGED <<host, tf>>
  /\ UNCHANGED exceptDeploy

\* sed "s/YOUR_PROJECT_ID/$PROJECT_ID/g" applied to terraform.tfvars
SedTfvars(project, id) == IF project = "YOUR_PROJECT_ID" THEN id ELSE project

\* update_terraform_vars
update_terraform_vars ==
  /\ sh.pc = "update_terraform_vars"
  /\ sh' = Step(sh, "update_terraform_vars", "read BUILD_IMAGES", {})
  /\ host' = [host EXCEPT !.tfvarsProject = SedTfvars(@, sh.PROJECT_ID)]
  /\ UNCHANGED <<cloud, tf>>
  /\ UNCHANGED exceptDeploy

\* main: the build prompt, and build_and_push_images on "yes"
read_BUILD_IMAGES ==
  /\ sh.pc = "read BUILD_IMAGES"
  /\ \E line \in Lines :
       sh' = [Step(sh, "read BUILD_IMAGES", "read RUN_TF",
                   IF read(line) = Yes
                     THEN {Cmd("docker build", "backend"), Cmd("docker build", "worker"),
                           Cmd("docker build", "frontend"), Cmd("docker push", "backend"),
                           Cmd("docker push", "worker"), Cmd("docker push", "frontend")}
                     ELSE {})
                EXCEPT !.BUILD_IMAGES = read(line),
                       !.ran = @ \cup (IF read(line) = Yes THEN {"build_and_push_images"}
                                       ELSE {})]
  /\ UNCHANGED <<host, cloud, tf>>
  /\ UNCHANGED exceptDeploy

\* ------------------------------------------------------------------------
\* infra/terraform: the resource graph
\* ------------------------------------------------------------------------

\* google_project_service.apis (one resource, an instance per API)
ApiResources == {"google_project_service.apis"}

\* the APIs google_project_service.apis enables
TerraformApis == APIS \cup {"sql-component.googleapis.com"}

\* modules/vpc
VpcResources ==
  {"module.vpc.google_compute_network.main",
   "module.vpc.google_compute_subnetwork.main",
   "module.vpc.google_compute_global_address.private_ip",
   "module.vpc.google_service_networking_connection.private_vpc",
   "module.vpc.google_vpc_access_connector.connector"}

\* modules/cloud-sql
CloudSqlResources ==
  {"module.cloud_sql.random_id.db_suffix",
   "module.cloud_sql.google_sql_database_instance.main",
   "module.cloud_sql.google_sql_database.main",
   "module.cloud_sql.google_sql_user.main"}

\* modules/secrets: resource name and secret_id of each secret
SecretIdOf ==
  [django_secret_key |-> "django-secret-key",
   encryption_key |-> "encryption-key",
   google_oauth_client_id |-> "google-oauth-client-id",
   google_oauth_secret |-> "google-oauth-secret",
   database_url |-> "database-url",
   nextauth_secret |-> "nextauth-secret"]

SecretResource(n) == "module.secrets.google_secret_manager_secret." \o n

SecretVersionResource(n) == "module.secrets.google_secret_manager_secret_version." \o n

SecretsResources ==
  {SecretResource(n) : n \in DOMAIN SecretIdOf}
    \cup {SecretVersionResource(n) : n \in DOMAIN SecretIdOf}

\* modules/cloud-run, once per service (count = 1 for a service, with its
\* public invoker binding) or job
ServiceModules == {"backend", "frontend"}

JobModules == {"worker", "migrate"}

ServiceResource(m) == "module." \o m \o ".google_cloud_run_v2_service.main"

PublicResource(m) == "module." \o m \o ".google_cloud_run_v2_service_iam_member.public"

JobResource(m) == "module." \o m \o ".google_cloud_run_v2_job.main"

\* the resource of a cloud-run module that carries the containers
Workload(m) == IF m \in JobModules THEN JobResource(m) ELSE ServiceResource(m)

CloudRunResources ==
  {ServiceResource(m) : m \in ServiceModules} \cup {PublicResource(m) : m \in ServiceModules}
    \cup {JobResource(m) : m \in JobModules}

RedisResources == {"module.redis.google_redis_instance.main"}

SchedulerJobs ==
  {"google_cloud_scheduler_job.email_sync", "google_cloud_scheduler_job.scrape_pending",
   "google_cloud_scheduler_job.generate_embeddings"}

RootResources ==
  {"google_service_account.backend", "google_service_account.frontend",
   "google_service_account.scheduler", "google_project_iam_member.backend_roles",
   "google_project_iam_member.frontend_roles",
   "google_cloud_run_service_iam_member.scheduler_invoker"} \cup SchedulerJobs

Resources ==
  ApiResources \cup VpcResources \cup CloudSqlResources \cup SecretsResources
    \cup CloudRunResources \cup RedisResources \cup RootResources

\* the secret IDs the secrets map of a cloud-run module names
SecretsOf(m) ==
  CASE m \in {"backend", "worker"} ->
         {"django-secret-key", "encryption-key", "google-oauth-client-id",
          "google-oauth-secret", "google-api-key", "database-url"}
    [] m = "migrate" -> {"django-secret-key", "database-url"}
    [] OTHER -> {"nextauth-secret", "google-oauth-client-id", "google-oauth-secret"}

\* the secrets resources the secrets map of a cloud-run module refers to
\* through the outputs of module.secrets
SecretRefsOf(m) ==
  CASE m \in {"backend", "worker"} ->
         {SecretResource(n) : n \in {"django_secret_key", "encryption_key",
                                     "google_oauth_client_id", "google_oauth_secret"}}
    [] m = "migrate" -> {SecretResource("django_secret_key")}
    [] OTHER -> {SecretResource(n) : n \in {"google_oauth_client_id", "google_oauth_secret"}}

\* the cloud-run module a resource belongs to ("" for none)
CloudRunModuleOf(r) ==
  IF \E m \in ServiceModules \cup JobModules : r \in {Workload(m), PublicResource(m)}
    THEN CHOOSE m \in ServiceModules \cup JobModules : r \in {Workload(m), PublicResource(m)}
    ELSE ""

\* the resources the arguments of a cloud-run module's workload refer to
WorkloadReferences(m) ==
  SecretRefsOf(m)
    \cup (IF m = "frontend" THEN {"google_service_account.frontend"}
          ELSE {"google_service_account.backend",
                "module.vpc.google_vpc_access_connector.connector",
                "module.cloud_sql.google_sql_database_instance.main"})
    \cup (IF m \in {"backend", "worker"} THEN RedisResources ELSE {})

\* the resources the arguments of a resource refer to, through module inputs
\* and outputs where they cross a module
References(r) ==
  CASE r \in {"module.vpc.google_compute_subnetwork.main",
              "module.vpc.google_compute_global_address.private_ip",
              "module.vpc.google_vpc_access_connector.connector"} ->
         {"module.vpc.google_compute_network.main"}
    [] r = "module.vpc.google_service_networking_connection.private_vpc" ->
         {"module.vpc.google_compute_network.main",
          "module.vpc.google_compute_global_address.private_ip"}
    [] r = "module.cloud_sql.google_sql_database_instance.main" ->
         {"module.cloud_sql.random_id.db_suffix", "module.vpc.google_compute_network.main"}
    [] r \in {"module.cloud_sql.google_sql_database.main",
              "module.cloud_sql.google_sql_user.main"} ->
         {"module.cloud_sql.google_sql_database_instance.main"}
    [] r \in {SecretVersionResource(n) : n \in DOMAIN SecretIdOf} ->
         {SecretResource(CHOOSE n \in DOMAIN SecretIdOf : r = SecretVersionResource(n))}
           \cup (IF r = SecretVersionResource("database_url")
                   THEN {"module.cloud_sql.google_sql_database_instance.main"} ELSE {})
    [] r \in {PublicResource(m) : m \in ServiceModules} ->
         {ServiceResource(CloudRunModuleOf(r))}
    [] r \in {Workload(m) : m \in ServiceModules \cup JobModules} ->
         WorkloadReferences(CloudRunModuleOf(r))
    [] r \in RedisResources -> {"module.vpc.google_compute_network.main"}
    [] r = "google_project_iam_member.backend_roles" -> {"google_service_account.backend"}
    [] r = "google_project_iam_member.frontend_roles" -> {"google_service_account.frontend"}
    [] r \in SchedulerJobs -> {ServiceResource("backend"), "google_service_account.scheduler"}
    [] r = "google_cloud_run_service_iam_member.scheduler_invoker" ->
         {"google_service_account.scheduler"}
    [] OTHER -> {}

\* a cloud_sql module that waits for the APIs only
DependsOnApisOnly(r) ==
  IF r \in SecretsResources \cup RedisResources \cup CloudSqlResources THEN ApiResources
  ELSE IF r \in CloudRunResources THEN ApiResources \cup SecretsResources
  ELSE IF r \in SchedulerJobs
    THEN ApiResources \cup {ServiceResource("backend"), PublicResource("backend")}
  ELSE {}

\* depends_on: of the module the resource is in, or of the resource itself
DependsOn(r) ==
  IF r \in CloudSqlResources THEN ApiResources \cup VpcResources
  ELSE IF r \in SecretsResources \cup RedisResources THEN ApiResources
  ELSE IF r \in CloudRunResources THEN ApiResources \cup SecretsResources
  ELSE IF r \in SchedulerJobs
    THEN ApiResources \cup {ServiceResource("backend"), PublicResource("backend")}
  ELSE {}

\* the edges of the graph: what each resource is created after
Graph == [r \in Resources |-> References(r) \cup DependsOn(r)]

Deps(r) == Graph[r]

\* the secret_id of each google_secret_manager_secret resource ("" for another resource)
SecretIds ==
  [r \in Resources |->
     IF \E n \in DOMAIN SecretIdOf : r = SecretResource(n)
       THEN SecretIdOf[CHOOSE n \in DOMAIN SecretIdOf : r = SecretResource(n)]
       ELSE ""]

SecretIdOfResource(r) == SecretIds[r]

\* whether Terraform may create a resource now
Ready(t, r) == r \in t.plan /\ r \notin t.state /\ r \notin t.failed /\ Deps(r) \subseteq t.state

\* the create request fails: the secret ID is taken in the project
CreateFails(c, r) == SecretIdOfResource(r) # "" /\ SecretIdOfResource(r) \in c.secrets

\* the project after Terraform's create request for a resource
CloudAfterCreate(c, r) ==
  IF r \in ApiResources THEN [c EXCEPT !.apis = @ \cup TerraformApis]
  ELSE IF SecretIdOfResource(r) # ""
    THEN [c EXCEPT !.secrets = @ \cup {SecretIdOfResource(r)},
                   !.secretCreates = @ \cup {<<"terraform", SecretIdOfResource(r)>>}]
  ELSE c

\* Terraform creates one resource; w is Terraform with the project
Create(w, r) ==
  [tf |-> IF CreateFails(w.cloud, r)
            THEN [w.tf EXCEPT !.failed = @ \cup {r}]
            ELSE [w.tf EXCEPT !.state = @ \cup {r}],
   cloud |-> CloudAfterCreate(w.cloud, r)]

\* terraform apply tfplan, to its end: every resource that is ready is
\* created, in some order the graph allows (the result is the same for all)
RECURSIVE ApplyAll(_)
ApplyAll(w) ==
  IF \E r \in Resources : Ready(w.tf, r)
    THEN ApplyAll(Create(w, CHOOSE r \in Resources : Ready(w.tf, r)))
    ELSE w

\* ------------------------------------------------------------------------
\* scripts/deploy-gcp.sh: run_terraform and the end of main
\* ------------------------------------------------------------------------

\* main: the Terraform prompt; run_terraform on "yes"
read_RUN_TF ==
  /\ sh.pc = "read RUN_TF"
  /\ \E line \in Lines :
       sh' = [Step(sh, "read RUN_TF",
                   IF read(line) = Yes THEN "terraform init" ELSE "print_next_steps", {})
                EXCEPT !.RUN_TF = read(line)]
  /\ UNCHANGED <<host, cloud, tf>>
  /\ UNCHANGED exceptDeploy

\* run_terraform: terraform init -reconfigure; a failure ends the script (set -e)
terraform_init ==
  /\ sh.pc = "terraform init"
  /\ \E ok \in BOOLEAN :
       sh' = IF ok THEN Step(sh, "terraform init", "terraform plan",
                             {Cmd("terraform init", "-reconfigure")})
             ELSE Exit(sh, "terraform init", 1, {Cmd("terraform init", "-reconfigure")})
  /\ UNCHANGED <<host, cloud, tf>>
  /\ UNCHANGED exceptDeploy

\* run_terraform: terraform plan -out=tfplan saves the resources to create
terraform_plan ==
  /\ sh.pc = "terraform plan"
  /\ \E ok \in BOOLEAN :
       IF ok
         THEN /\ sh' = Step(sh, "terraform plan", "read APPLY_CONFIRM",
                            {Cmd("terraform plan", "-out=tfplan")})
              /\ tf' = [tf EXCEPT !.plan = Resources \ tf.state, !.failed = {}]
         ELSE /\ sh' = Exit(sh, "terraform plan", 1, {Cmd("terraform plan", "-out=tfplan")})
              /\ UNCHANGED tf
  /\ UNCHANGED <<host, cloud>>
  /\ UNCHANGED exceptDeploy

\* a confirmation that takes every answer but "no" for a yes
ConfirmedUnlessNo(answer) == answer # <<"no">>

\* [ "$APPLY_CONFIRM" == "yes" ]
Confirmed(answer) == answer = Yes

\* run_terraform: the confirmation prompt
read_APPLY_CONFIRM ==
  /\ sh.pc = "read APPLY_CONFIRM"
  /\ \E line \in Lines :
       sh' = [Step(sh, "read APPLY_CONFIRM",
                   IF Confirmed(read(line)) THEN "terraform apply" ELSE "print_next_steps",
                   {})
                EXCEPT !.APPLY_CONFIRM = read(line)]
  /\ UNCHANGED <<host, cloud, tf>>
  /\ UNCHANGED exceptDeploy

\* run_terraform: terraform apply tfplan; a failed resource ends the script
terraform_apply ==
  /\ sh.pc = "terraform apply"
  /\ LET w == ApplyAll([tf |-> tf, cloud |-> cloud])
     IN  /\ tf' = w.tf
         /\ cloud' = w.cloud
         /\ sh' = IF w.tf.failed = {}
                    THEN Step(sh, "terraform apply", "print_next_steps",
                              {Cmd("terraform apply", "tfplan")})
                    ELSE Exit(sh, "terraform apply", 1, {Cmd("terraform apply", "tfplan")})
  /\ UNCHANGED host
  /\ UNCHANGED exceptDeploy

\* print_next_steps, and main returns
print_next_steps ==
  /\ sh.pc = "print_next_steps"
  /\ sh' = Exit(sh, "print_next_steps", 0, {})
  /\ UNCHANGED <<host, cloud, tf>>
  /\ UNCHANGED exceptDeploy

\* the operator runs the script again, perhaps after installing a tool,
\* enabling billing or setting PROJECT_ID
Rerun ==
  /\ sh.pc = "exited"
  /\ sh.run < MaxRuns
  /\ \E installed \in SUBSET Tools, billing \in BOOLEAN, id \in ProjectIds :
       /\ sh' = StartShell(id, sh.run + 1)
       /\ host' = [host EXCEPT !.installed = installed]
       /\ cloud' = [cloud EXCEPT !.billingEnabled = billing]
  /\ UNCHANGED tf
  /\ UNCHANGED exceptDeploy

NextDeploy ==
  \/ check_prerequisites
  \/ get_project_id
  \/ configure_gcloud
  \/ enable_apis
  \/ create_artifact_registry
  \/ create_terraform_state_bucket
  \/ configure_cloud_build_permissions
  \/ generate_secrets
  \/ prompt_for_manual_secrets
  \/ update_terraform_vars
  \/ read_BUILD_IMAGES
  \/ read_RUN_TF
  \/ terraform_init
  \/ terraform_plan
  \/ read_APPLY_CONFIRM
  \/ terraform_apply
  \/ print_next_steps
  \/ Rerun

\* a project in which nothing has been set up
FreshProject(billing) ==
  [billingEnabled |-> billing, apis |-> {}, repositories |-> {}, buckets |-> {},
   iam |-> {}, secrets |-> {}, secretCreates |-> {}]

\* the files of the checkout: the bucket of the gcs backend block of
\* infra/terraform/main.tf and the project of terraform.tfvars
Checkout(installed, authenticated) ==
  [installed |-> installed, authenticated |-> authenticated, project |-> "",
   backendBucket |-> "prj-cts-lab-vertex-sandbox-tfstate",
   tfvarsProject |-> "YOUR_PROJECT_ID"]

\* Terraform before its first plan
NoTerraform == [state |-> {}, plan |-> {}, failed |-> {}, applying |-> FALSE]

DeployInit ==
  /\ \E id \in ProjectIds : sh = StartShell(id, 1)
  /\ \E installed \in SUBSET Tools, authenticated \in BOOLEAN :
       host = Checkout(installed, authenticated)
  /\ \E billing \in BOOLEAN : cloud = FreshProject(billing)
  /\ tf = NoTerraform

\* the script is not run
DeployIdle ==
  /\ sh = [StartShell("", 0) EXCEPT !.pc = "idle"]
  /\ host = Checkout(Tools, TRUE)
  /\ cloud = FreshProject(TRUE)
  /\ tf = NoTerraform

\* ------------------------------------------------------------------------
\* infra/terraform: terraform apply, resource by resource
\* ------------------------------------------------------------------------

\* the project after the deploy script has run to its end without applying
\* Terraform, the operator having given the OAuth client and the API key or not
ProjectAfterScript(manual) ==
  create_secrets(
    [cloud |-> [FreshProject(TRUE) EXCEPT !.apis = APIS,
                                           !.repositories = {"ai-news-images"},
                                           !.buckets = {"news-prod-tfstate"},
                                           !.iam = ROLES],
     cmds |-> {}],
    <<"django-secret-key", "encryption-key", "nextauth-secret", "database-password">>
      \o (IF manual
            THEN <<"google-oauth-client-id", "google-oauth-client-secret", "google-api-key">>
            ELSE <<>>)).cloud

\* the operator applies the configuration after the deploy script
\* (print_next_steps, step 3: cd infra/terraform && terraform apply)
TerraformInit ==
  /\ sh = [StartShell("news-prod", 1) EXCEPT !.pc = "exited", !.exitStatus = 0]
  /\ host = [Checkout(Tools, TRUE) EXCEPT !.project = "news-prod",
                                          !.tfvarsProject = "news-prod"]
  /\ \E manual \in BOOLEAN : cloud = ProjectAfterScript(manual)
  /\ tf = [state |-> {}, plan |-> Resources, failed |-> {}, applying |-> TRUE]

\* Terraform creates a resource whose dependencies have all been created
TerraformCreate(r) ==
  /\ tf.applying
  /\ Ready(tf, r)
  /\ tf' = Create([tf |-> tf, cloud |-> cloud], r).tf
  /\ cloud' = Create([tf |-> tf, cloud |-> cloud], r).cloud
  /\ UNCHANGED <<sh, host>>
  /\ UNCHANGED exceptDeploy

\* nothing is left that Terraform may create: the apply ends
TerraformApplyEnds ==
  /\ tf.applying
  /\ \A r \in Resources : ~Ready(tf, r)
  /\ tf' = [tf EXCEPT !.applying = FALSE]
  /\ UNCHANGED <<sh, host, cloud>>
  /\ UNCHANGED exceptDeploy

NextTerraform == (\E r \in Resources : TerraformCreate(r)) \/ TerraformApplyEnds

\* ------------------------------------------------------------------------
\* Specifications
\* ------------------------------------------------------------------------

\* a signed-in session on the dashboard
AuthOnDashboard ==
  /\ route = Url(DashboardPath, None)
  /\ status = "authenticated"
  /\ authed = TRUE
  /\ requested = Url(DashboardPath, None)
  /\ via = "load"
  /\ view = Render(Url(DashboardPath, None), "authenticated")
  /\ pushes = 0
  /\ lastPush = [page |-> "none", from |-> Url(Root, None), target |-> Url(Root, None)]
  /\ signIns = 0
  /\ lastSignIn = [provider |-> "none", callbackUrl |-> None]

\* ------------------------------------------------------------------------
\* The paginated list pages
\* ------------------------------------------------------------------------

\* how far the model pages forward
MaxPage == 3

ListPages == {"emails", "articles", "clusters", "posts"}

\* the search texts the user types
Searches == {"", "ai"}

\* the 'previous' and 'next' links of a paginated response: null, or a URL
LinkValues == {Absent, "", "url"}

\* PaginatedResponse: the links and the number of results of the page
Paginated == [previous : LinkValues, next : LinkValues, results : 0..1]

\* useQuery while its request runs (isLoading), and after it failed (no data)
Loading == [previous |-> Absent, next |-> Absent, results |-> -1]

Failed == [previous |-> Absent, next |-> Absent, results |-> -2]

\* whether the query of the current key has data
HasData(q) == q \notin {Loading, Failed}

\* whether the Previous and Next buttons are on screen: inside the
\* isLoading ternary, under `data &&` on the articles and clusters lists and
\* under `data && data.results && data.results.length > 0` on the emails and
\* posts lists
PaginationRendered(l, q) ==
  /\ q # Loading
  /\ HasData(q)
  /\ (l \in {"emails", "posts"} => q.results > 0)

\* setPage((p) => Math.max(1, p - 1))
PreviousPage(p) == IF p - 1 > 1 THEN p - 1 ELSE 1

\* setPage((p) => p + 1)
NextPage(p) == p + 1

\* a Previous button that is never disabled
PreviousEnabledAlways(l, q) == PaginationRendered(l, q)

\* Previous: disabled={!data.previous}
PreviousEnabled(l, q) == PaginationRendered(l, q) /\ ~Falsy(q.previous)

\* Next: disabled={!data.next}
NextEnabled(l, q) == PaginationRendered(l, q) /\ ~Falsy(q.next)

\* the list page mounts: page 1, no search text, the query starts
OpenList(l) ==
  /\ list' = l
  /\ pageNumber' = 1
  /\ search' = ""
  /\ listQuery' = Loading
  /\ lastClick' = "open"
  /\ UNCHANGED exceptLists

ListsInit ==
  /\ list = "emails"
  /\ pageNumber = 1
  /\ search = ""
  /\ listQuery = Loading
  /\ lastClick = "open"

\* the request of the current key answers with a page
ListLoaded(r) ==
  /\ listQuery = Loading
  /\ listQuery' = r
  /\ lastClick' = "none"
  /\ UNCHANGED <<list, pageNumber, search>>
  /\ UNCHANGED exceptLists

\* the request of the current key fails: a 404 for a page past the last one,
\* a 5xx, no network
ListFailed ==
  /\ listQuery = Loading
  /\ listQuery' = Failed
  /\ lastClick' = "none"
  /\ UNCHANGED <<list, pageNumber, search>>
  /\ UNCHANGED exceptLists

\* a click on Previous; a page number that changes is a new query key
ClickPrevious ==
  /\ PreviousEnabled(list, listQuery)
  /\ pageNumber' = PreviousPage(pageNumber)
  /\ listQuery' = IF pageNumber' = pageNumber THEN listQuery ELSE Loading
  /\ lastClick' = "Previous"
  /\ UNCHANGED <<list, search>>
  /\ UNCHANGED exceptLists

\* a click on Next
ClickNext ==
  /\ NextEnabled(list, listQuery)
  /\ pageNumber < MaxPage
  /\ pageNumber' = NextPage(pageNumber)
  /\ listQuery' = Loading
  /\ lastClick' = "Next"
  /\ UNCHANGED <<list, search>>
  /\ UNCHANGED exceptLists

\* the user edits the search box of the articles list: setSearch only, which
\* is a new query key
SetSearch(text) ==
  /\ list = "articles"
  /\ text # search
  /\ search' = text
  /\ listQuery' = Loading
  /\ lastClick' = "search"
  /\ UNCHANGED <<list, pageNumber>>
  /\ UNCHANGED exceptLists

NextLists ==
  \/ \E l \in ListPages : OpenList(l)
  \/ \E r \in Paginated : ListLoaded(r)
  \/ ListFailed
  \/ ClickPrevious
  \/ ClickNext
  \/ \E text \in Searches : SetSearch(text)

\* ------------------------------------------------------------------------
\* The dashboard-stats query
\* ------------------------------------------------------------------------

\* the four list endpoints the query asks for their count
CountEndpoints == {"/emails/", "/articles/", "/clusters/", "/posts/"}

\* the field of the stats object an endpoint fills
StatOf(endpoint) ==
  CASE endpoint = "/emails/" -> "emails"
    [] endpoint = "/articles/" -> "articles"
    [] endpoint = "/clusters/" -> "clusters"
    [] OTHER -> "posts"

\* how api.get may settle: rejected, or resolved with a body that is null, an
\* object without count, or an object with a count
CountPending == [kind |-> "pending", body |-> "none", count |-> 0]

CountOutcomes ==
  [kind : {"rejected"}, body : {"none"}, count : {0}]
    \cup [kind : {"resolved"}, body : {"null", "object"}, count : {0}]
    \cup [kind : {"resolved"}, body : {"count"}, count : {0, 4}]

\* a settled promise with a number
PromiseOf(kind, value) == [kind |-> kind, value |-> value]

\* .then((r) => r.count || 0): reading count of null throws
ThenCount(o) ==
  IF o.kind = "rejected" \/ o.body = "null" THEN PromiseOf("rejected", 0)
  ELSE IF o.body = "count" /\ o.count # 0 THEN PromiseOf("resolved", o.count)
  ELSE PromiseOf("resolved", 0)

\* .catch(() => 0)
CatchZero(pr) == IF pr.kind = "rejected" THEN PromiseOf("resolved", 0) ELSE pr

\* a count request without its catch
CountRequestNoCatch(o) == ThenCount(o)

\* api.get(endpoint).then((r) => r.count || 0).catch(() => 0)
CountRequest(o) == CatchZero(ThenCount(o))

NoStats == [emails |-> 0, articles |-> 0, clusters |-> 0, posts |-> 0, defined |-> FALSE]

\* Promise.all rejects if one of its promises rejects; otherwise the query
\* function returns { emails, articles, clusters, posts }
QueryFn(settled) ==
  IF \E e \in CountEndpoints : CountRequest(settled[e]).kind = "rejected"
    THEN [status |-> "error", data |-> NoStats]
    ELSE [status |-> "success",
          data |-> [emails |-> CountRequest(settled["/emails/"]).value,
                    articles |-> CountRequest(settled["/articles/"]).value,
                    clusters |-> CountRequest(settled["/clusters/"]).value,
                    posts |-> CountRequest(settled["/posts/"]).value,
                    defined |-> TRUE]]

\* the value of a stat card: stats?.emails || 0
CardValue(st, field) == IF st.defined THEN st[field] ELSE 0

\* the overview mounts: the query starts its four requests
StatsInit ==
  /\ counts = [e \in CountEndpoints |-> CountPending]
  /\ stats = NoStats
  /\ statsStatus = "pending"

\* one of the four requests settles
CountSettles(endpoint, o) ==
  /\ counts[endpoint] = CountPending
  /\ counts' = [counts EXCEPT ![endpoint] = o]
  /\ UNCHANGED <<stats, statsStatus>>
  /\ UNCHANGED exceptStats

\* all four have settled: the query function returns or throws
StatsSettles ==
  /\ statsStatus = "pending"
  /\ \A e \in CountEndpoints : counts[e] # CountPending
  /\ statsStatus' = QueryFn(counts).status
  /\ stats' = IF QueryFn(counts).status = "success" THEN QueryFn(counts).data ELSE stats
  /\ UNCHANGED counts
  /\ UNCHANGED exceptStats

\* the query is invalidated (the timer of a sync) and fetches again; the
\* cards keep the data they have
StatsRefetch ==
  /\ statsStatus # "pending"
  /\ counts' = [e \in CountEndpoints |-> CountPending]
  /\ statsStatus' = "pending"
  /\ UNCHANGED stats
  /\ UNCHANGED exceptStats

NextStats ==
  \/ \E e \in CountEndpoints : \E o \in CountOutcomes : CountSettles(e, o)
  \/ StatsSettles
  \/ StatsRefetch

\* ------------------------------------------------------------------------
\* The in-app links of the dashboard pages
\* ------------------------------------------------------------------------

\* how many earlier paths the model keeps for router.back()
MaxHistory == 2

\* the ids of the records the pages list
Ids == {"1", "2"}

\* the page components and the route each is served at
Components ==
  {"DashboardPage", "EmailsPage", "EmailDetailPage", "ArticlesPage",
   "ArticlesPage (emails/page.tsx)", "ArticleDetailPage", "ClustersPage",
   "ClusterDetailPage", "PostsPage", "NewPostPage", "PostDetailPage", "PostEditPage"}

\* /dashboard/<section>
Section(name) == DashboardPath \o <<"/", name>>

\* /dashboard/<section>/<id>
Detail(name, id) == Section(name) \o <<"/", id>>

\* the paths a component is served at
RoutesOf(c) ==
  CASE c = "DashboardPage" -> {DashboardPath}
    [] c = "EmailsPage" -> {Section("emails")}
    [] c = "EmailDetailPage" -> {Detail("emails", i) : i \in Ids}
    [] c \in {"ArticlesPage", "ArticlesPage (emails/page.tsx)"} -> {Section("articles")}
    [] c = "ArticleDetailPage" -> {Detail("articles", i) : i \in Ids}
    [] c = "ClustersPage" -> {Section("clusters")}
    [] c = "ClusterDetailPage" -> {Detail("clusters", i) : i \in Ids}
    [] c = "PostsPage" -> {Section("posts")}
    [] c = "NewPostPage" -> {Detail("posts", "new")}
    [] c = "PostDetailPage" -> {Detail("posts", i) : i \in Ids}
    [] c = "PostEditPage" -> {Detail("posts", i) \o <<"/", "edit">> : i \in Ids}
    [] OTHER -> {}

\* the components the router may render for a path; none for a path no
\* page is served at
ComponentsAt(p) == {c \in Components : p \in RoutesOf(c)}

\* the hrefs of the <Link> elements a component renders at a path
Links(c, at) ==
  CASE c = "EmailsPage" -> {Detail("emails", i) : i \in Ids}
    [] c = "EmailDetailPage" -> {Detail("articles", i) : i \in Ids}
    [] c = "ArticlesPage" ->
         {Detail("articles", i) : i \in Ids} \cup {Detail("clusters", i) : i \in Ids}
    [] c = "ArticlesPage (emails/page.tsx)" -> {<<"/", "clusters", "/", i>> : i \in Ids}
    [] c = "ArticleDetailPage" -> {Detail("clusters", i) : i \in Ids}
    [] c = "ClustersPage" -> {Detail("clusters", i) : i \in Ids}
    [] c = "ClusterDetailPage" -> {Detail("articles", i) : i \in Ids}
    [] c = "PostsPage" ->
         {<<"/", "posts", "/", "new">>} \cup {<<"/", "posts", "/", i>> : i \in Ids}
           \cup {<<"/", "posts", "/", i, "/", "edit">> : i \in Ids}
    [] c = "PostDetailPage" ->
         {at \o <<"/", "edit">>} \cup {Detail("clusters", i) : i \in Ids}
    [] OTHER -> {}

NoLink == [from |-> "none", href |-> <<>>]

\* what the router shows for a path
Rendered(p) == IF ComponentsAt(p) = {} THEN {"NotFound"} ELSE ComponentsAt(p)

\* the overview of the dashboard is on screen
NavInit ==
  /\ screen = "DashboardPage"
  /\ location = DashboardPath
  /\ origin = NoLink
  /\ history = <<>>

\* the user opens a dashboard page from the address bar or the navigation
OpenScreen(c, p) ==
  /\ p \in RoutesOf(c)
  /\ Len(history) < MaxHistory
  /\ screen' = c
  /\ location' = p
  /\ origin' = NoLink
  /\ history' = Append(history, location)
  /\ UNCHANGED exceptNav

\* the user follows a link of the page on screen; a path no page is served
\* at shows the not-found page
FollowLink(href) ==
  /\ href \in Links(screen, location)
  /\ Len(history) < MaxHistory
  /\ location' = href
  /\ screen' \in Rendered(href)
  /\ origin' = [from |-> screen, href |-> href]
  /\ history' = Append(history, location)
  /\ UNCHANGED exceptNav

\* the components with a Back button: onClick={() => router.back()}
WithBack ==
  {"EmailDetailPage", "ArticleDetailPage", "ClusterDetailPage", "NewPostPage",
   "PostDetailPage", "PostEditPage"}

\* a click on Back returns to the path visited before
Back ==
  /\ screen \in WithBack
  /\ history # <<>>
  /\ location' = history[Len(history)]
  /\ screen' \in Rendered(location')
  /\ origin' = [from |-> screen, href |-> location']
  /\ history' = SubSeq(history, 1, Len(history) - 1)
  /\ UNCHANGED exceptNav

\* every path a link can hold
Hrefs == UNION {Links(c, p) : c \in Components, p \in UNION {RoutesOf(d) : d \in Components}}

NextNav ==
  \/ \E c \in Components : \E p \in RoutesOf(c) : OpenScreen(c, p)
  \/ \E href \in Hrefs : FollowLink(href)
  \/ Back

\* ------------------------------------------------------------------------
\* The specifications of the parts
\* ------------------------------------------------------------------------

InitAuth == AuthInit /\ PagesInit /\ DedupIdle /\ DeployIdle /\ ListsInit /\ StatsInit
  /\ NavInit

SpecAuth == InitAuth /\ [][NextAuth]_vars

InitPages == AuthOnDashboard /\ PagesInit /\ DedupIdle /\ DeployIdle /\ ListsInit /\ StatsInit
  /\ NavInit

SpecPages == InitPages /\ [][NextPages]_vars

InitDedup == AuthOnDashboard /\ PagesInit /\ DedupInit /\ DeployIdle /\ ListsInit /\ StatsInit
  /\ NavInit

SpecDedup == InitDedup /\ [][NextDedup]_vars

InitDeploy == AuthOnDashboard /\ PagesInit /\ DedupIdle /\ DeployInit /\ ListsInit /\ StatsInit
  /\ NavInit

SpecDeploy == InitDeploy /\ [][NextDeploy]_vars

InitTerraform ==
  AuthOnDashboard /\ PagesInit /\ DedupIdle /\ TerraformInit /\ ListsInit /\ StatsInit
  /\ NavInit

SpecTerraform == InitTerraform /\ [][NextTerraform]_vars

InitLists == AuthOnDashboard /\ PagesInit /\ DedupIdle /\ DeployIdle /\ ListsInit /\ StatsInit
  /\ NavInit

SpecLists == InitLists /\ [][NextLists]_vars

InitStats == AuthOnDashboard /\ PagesInit /\ DedupIdle /\ DeployIdle /\ ListsInit /\ StatsInit
  /\ NavInit

SpecStats == InitStats /\ [][NextStats]_vars

InitNav ==
  AuthOnDashboard /\ PagesInit /\ DedupIdle /\ DeployIdle /\ ListsInit /\ StatsInit
  /\ NavInit

SpecNav == InitNav /\ [][NextNav]_vars

\* ------------------------------------------------------------------------
\* The API client and the mutations: properties
\* ------------------------------------------------------------------------

\* whether the JSON body of a response has a field
Present(v) == v # Absent

\* C9: ApiClient.request propagates errors purely by HTTP status: it rejects
\* if and only if the status is not 2xx and resolves with the parsed body for
\* every 2xx response; on rejection the Error message is the body's 'detail'
\* if present, else its 'message', else 'HTTP <status>' (also when the error
\* body is not JSON).
C9_StatusOnly ==
  lastCall.kind = "settle" =>
    /\ (lastCall.outcome.kind = "rejected" <=> ~ResponseOk(lastCall.resp))
    /\ (ResponseOk(lastCall.resp) => lastCall.outcome = Resolved(lastCall.resp.body))
    /\ (~ResponseOk(lastCall.resp) =>
          lastCall.outcome.message =
            IF Present(lastCall.resp.body.detail) THEN lastCall.resp.body.detail
            ELSE IF Present(lastCall.resp.body.message) THEN lastCall.resp.body.message
            ELSE "HTTP " \o ToString(lastCall.resp.status))

\* C10: for every mutation of every dashboard page, a failed request produces
\* exactly one toast, of variant 'destructive'; the failure handler issues no
\* request (no retry, and the mutation is no longer pending), invalidates,
\* writes and schedules no cached query and performs no navigation.
C10_FailureToast ==
  (lastCall.kind = "settle"
     /\ (~ResponseOk(lastCall.resp) \/ lastCall.outcome.kind = "rejected")) =>
    /\ Len(fx.toasts) = 1
    /\ fx.toasts[1].variant = "destructive"
    /\ fx.requests = {}
    /\ lastCall.mutation \notin pending
    /\ fx.invalidate = {}
    /\ fx.setData = {}
    /\ fx.timers = {}
    /\ fx.push = {}
    /\ page = lastCall.mutation.page

C10_Witness ==
  /\ lastCall.kind = "settle"
  /\ lastCall.mutation.name = "updatePost"
  /\ lastCall.resp.status = 500
  /\ lastCall.outcome.kind = "rejected"
  /\ fx.toasts = <<Toast("Failed to save post", Absent, "destructive")>>
  /\ page = "postEdit"

\* the syncEmails mutation of the dashboard overview
OverviewSync == Mutation("overview", "syncEmails", "POST", "/emails/sync/")

\* the 'Sync Emails' button is enabled exactly when no sync is pending
C11_Enabled ==
  page = "overview" => (ControlEnabled(OverviewSync) <=> OverviewSync \notin pending)

\* a click on 'Sync Emails' is taken only while no sync is pending, and issues
\* one POST to /emails/sync/ and nothing else
C11_Click ==
  (lastCall'.kind = "mutate" /\ lastCall'.mutation = OverviewSync
     /\ <<lastCall, pending>>' # <<lastCall, pending>>) =>
    /\ page = "overview"
    /\ OverviewSync \notin pending
    /\ fx'.requests = {[method |-> "POST", endpoint |-> "/emails/sync/"]}
    /\ Cardinality(fx'.requests) = 1
    /\ pending' = pending \cup {OverviewSync}
    /\ fx'.invalidate = {} /\ fx'.setData = {} /\ fx'.push = {} /\ fx'.toasts = <<>>

\* C11: on the dashboard overview the 'Sync Emails' button is enabled when no
\* sync is pending, and each click on it while enabled issues exactly one
\* POST request to /emails/sync/ and no other mutating request.
C11_SyncButton == [](C11_Enabled) /\ [][C11_Click]_vars

C11_Witness ==
  /\ page = "overview"
  /\ lastCall.kind = "mutate"
  /\ lastCall.mutation = OverviewSync
  /\ fx.requests = {[method |-> "POST", endpoint |-> "/emails/sync/"]}
  /\ OverviewSync \in pending
  /\ ~ControlEnabled(OverviewSync)

\* the syncEmails mutation of the emails list
EmailsSync == Mutation("emails", "syncEmails", "POST", "/emails/sync/")

\* the query key a sync refreshes
SyncQueryKey(mu) == IF mu = OverviewSync THEN "dashboard-stats" ELSE "emails"

\* a sync request has just settled
SyncSettles ==
  /\ lastCall'.kind = "settle"
  /\ lastCall'.mutation \in {OverviewSync, EmailsSync}
  /\ <<lastCall, pending>>' # <<lastCall, pending>>

\* a successful sync shows its toast at once, invalidates nothing yet and
\* starts one timer of 5 seconds for its query key
C19_Success ==
  (SyncSettles /\ lastCall'.outcome.kind = "resolved") =>
    /\ Len(fx'.toasts) = 1
    /\ fx'.toasts[1].title = "Email sync started"
    /\ fx'.toasts[1].variant = "default"
    /\ fx'.invalidate = {}
    /\ timers' = Append(timers, [key |-> SyncQueryKey(lastCall'.mutation),
                                 delay |-> 5000, age |-> 0])

\* a failed sync starts no timer and invalidates nothing
C19_Failure ==
  (SyncSettles /\ lastCall'.outcome.kind = "rejected") =>
    /\ fx'.timers = {}
    /\ fx'.invalidate = {}
    /\ timers' = timers

\* the query keys of the syncs are invalidated only by a timer that has waited
\* 5 seconds, which invalidates its own key and is gone afterwards; a waiting
\* timer leaves in no other way
C19_Timer ==
  /\ (fx'.invalidate \cap {"dashboard-stats", "emails"} # {} /\ fx' # fx) =>
        /\ lastCall'.kind = "timer"
        /\ timers # <<>>
        /\ Head(timers).age >= 5000
        /\ fx'.invalidate = {Head(timers).key}
        /\ timers' = Tail(timers)
  /\ (Len(timers') < Len(timers)) =>
        /\ lastCall'.kind = "timer"
        /\ lastCall'.timer = Head(timers)
        /\ fx'.invalidate = {Head(timers).key}
        /\ timers' = Tail(timers)

\* C19: after a successful email sync request the affected queries
\* (dashboard-stats on the overview, 'emails' on the emails list) are
\* invalidated exactly once, 5 seconds after the success and not before; the
\* success toast is shown immediately; a failed sync schedules no invalidation.
C19_DelayedInvalidation == [][C19_Success /\ C19_Failure /\ C19_Timer]_vars

C19_Witness ==
  /\ lastCall.kind = "timer"
  /\ lastCall.timer = [key |-> "emails", delay |-> 5000, age |-> 5000]
  /\ fx.invalidate = {"emails"}
  /\ timers # <<>>
  /\ Head(timers).key = "dashboard-stats"
  /\ Head(timers).age < 5000

\* the generateSummary mutation of the email detail page
EmailSummary ==
  Mutation("emailDetail", "generateSummary", "POST", "/emails/{id}/generate_summary/")

\* a generate_summary request has just resolved
SummaryResolves ==
  /\ lastCall'.kind = "settle"
  /\ lastCall'.mutation = EmailSummary
  /\ lastCall'.outcome.kind = "resolved"
  /\ <<lastCall, pending>>' # <<lastCall, pending>>

\* the summary of the response is written into the cached email, whose other
\* fields stay, and the button is gone
SummaryWritten ==
  /\ email # Undefined
  /\ email' = [email EXCEPT !.ai_summary = lastCall'.resp.body.payload]
  /\ fx'.setData = {"email:id"}
  /\ ~ControlRendered(EmailSummary)'

\* nothing is shown and the cached email stays
SummaryIgnored == fx'.toasts = <<>> /\ fx'.setData = {} /\ email' = email

\* 'Generate Summary' is clicked only for a loaded email without a summary
SummaryRequested ==
  (lastCall'.kind = "mutate" /\ lastCall'.mutation = EmailSummary
     /\ <<lastCall, pending>>' # <<lastCall, pending>>) =>
    (email # Undefined /\ Falsy(email.ai_summary))

\* C20 as stated: on the email detail page a successful generate_summary
\* response that carries ai_summary immediately writes that summary into the
\* cached email (all other fields unchanged), after which the 'Generate
\* Summary' button is no longer rendered and no further generate_summary
\* request can be issued; a successful response without ai_summary shows no
\* toast and leaves the cached email unchanged.
C20_Original ==
  [][/\ SummaryResolves =>
          IF Present(lastCall'.resp.body.payload) THEN SummaryWritten ELSE SummaryIgnored
     /\ SummaryRequested]_vars

\* C20, amended: a successful generate_summary response that carries a
\* non-empty ai_summary immediately writes that summary into the cached email
\* (all other fields unchanged), after which the 'Generate Summary' button is
\* no longer rendered and no further generate_summary request can be issued;
\* a successful response without ai_summary, or with an empty one, shows no
\* toast and leaves the cached email unchanged.
C20_SummaryCached ==
  [][/\ SummaryResolves =>
          IF ~Falsy(lastCall'.resp.body.payload) THEN SummaryWritten ELSE SummaryIgnored
     /\ SummaryRequested]_vars

C20_Witness ==
  /\ page = "emailDetail"
  /\ lastCall.kind = "settle"
  /\ lastCall.mutation = EmailSummary
  /\ lastCall.resp.body.payload = "value"
  /\ email = [subject |-> "Weekly AI digest", is_processed |-> TRUE, ai_summary |-> "value"]
  /\ Len(fx.toasts) = 1
  /\ ~ControlRendered(EmailSummary)

\* the rescrape mutation of the article detail page
Rescrape == Mutation("articleDetail", "rescrape", "POST", "/articles/{id}/rescrape/")

\* for a loaded article the button is on screen exactly when the scrape
\* failed, and it is there whenever the text that points to it is shown
C21_Rendered ==
  (page = "articleDetail" /\ article # NoArticle) =>
    /\ ControlRendered(Rescrape) <=> article.scrape_status = "failed"
    /\ FullContent(article)
         = "Failed to scrape article content. Try clicking 'Retry Scrape' above."
       => ControlRendered(Rescrape)

\* a rescrape request is issued only for a displayed status of 'failed'
C21_Request ==
  (lastCall'.kind = "mutate" /\ lastCall'.mutation = Rescrape
     /\ <<lastCall, pending>>' # <<lastCall, pending>>) =>
    /\ article # NoArticle
    /\ article.scrape_status = "failed"
    /\ article.scrape_status \notin {"pending", "success"}

\* C21: on the article detail page the 'Retry Scrape' button is rendered
\* exactly when scrape_status is 'failed'; whenever the message telling the
\* user to click 'Retry Scrape' is shown the button is present, and a rescrape
\* request is never issued for an article whose displayed status is 'pending'
\* or 'success'.
C21_RetryScrape == [](C21_Rendered) /\ [][C21_Request]_vars

C21_Witness ==
  /\ page = "articleDetail"
  /\ article = [scrape_status |-> "failed", content_text |-> Absent]
  /\ lastCall.kind = "mutate"
  /\ lastCall.mutation = Rescrape
  /\ Rescrape \in pending

\* the generateSummary mutation of the clusters list
ClustersSummary ==
  Mutation("clusters", "generateSummary", "POST", "/clusters/{id}/generate_summary/")

C23_Click ==
  lastClick' # "open" =>
    /\ pageNumber' > pageNumber =>
         /\ lastClick' = "Next"
         /\ pageNumber' = pageNumber + 1
         /\ HasData(listQuery)
         /\ listQuery.next # Absent
    /\ pageNumber' < pageNumber =>
         /\ lastClick' = "Previous"
         /\ pageNumber' = pageNumber - 1
         /\ HasData(listQuery)
         /\ listQuery.previous # Absent

\* C23: on every paginated list page (emails, articles, clusters, posts),
\* after any sequence of Previous and Next clicks the page number is an
\* integer >= 1; it is incremented only in a state where the loaded response
\* for the current page has a non-null 'next' link and decremented only where
\* it has a non-null 'previous' link.
C23_PageNumber == [](pageNumber \in Nat /\ pageNumber >= 1) /\ [][C23_Click]_vars

C23_Witness ==
  /\ list = "posts"
  /\ lastClick = "Previous"
  /\ pageNumber = 2
  /\ listQuery = Loading

\* C24: on the articles list, in every state where the page number is greater
\* than 1 and no request is loading, an enabled Previous control is rendered,
\* so the user can always return to page 1; this holds also after the search
\* text is changed while a later page is displayed (changing the search text
\* leaves the page number unchanged).
C24_PreviousReachable ==
  /\ []((list = "articles" /\ pageNumber > 1 /\ listQuery # Loading) =>
          PreviousEnabled(list, listQuery))
  /\ [][(search' # search /\ lastClick' = "search") => pageNumber' = pageNumber]_vars

\* what a card shows for the outcome of its own request
ExpectedCount(o) == IF o.kind = "resolved" /\ o.body = "count" THEN o.count ELSE 0

\* C25: the dashboard-stats query never fails: each of its four count
\* requests (/emails/, /articles/, /clusters/, /posts/) is handled
\* independently, a failed request or a response without a count yields 0 for
\* that card only, and the other three cards still show the counts their own
\* requests returned.
C25_StatsNeverFail ==
  /\ statsStatus # "error"
  /\ (statsStatus = "success" =>
        /\ stats.defined
        /\ \A e \in CountEndpoints :
             CardValue(stats, StatOf(e)) = ExpectedCount(counts[e]))

C25_Witness ==
  /\ statsStatus = "success"
  /\ counts["/emails/"].kind = "rejected"
  /\ counts["/articles/"].body = "null"
  /\ counts["/clusters/"].body = "object"
  /\ counts["/posts/"] = [kind |-> "resolved", body |-> "count", count |-> 4]
  /\ CardValue(stats, "emails") = 0
  /\ CardValue(stats, "posts") = 4

\* C26: every in-app navigation link rendered by a dashboard page (list,
\* detail, new and edit pages for emails, articles, clusters and posts)
\* targets a route under /dashboard, so following links from inside the
\* dashboard never leaves the set of routes that the auth middleware protects.
C26_LinksProtected ==
  /\ \A href \in Links(screen, location) : UnderDashboard(href) /\ MiddlewareRuns(href)
  /\ MiddlewareRuns(location)

\* ------------------------------------------------------------------------
\* The deduplication rule: properties
\* ------------------------------------------------------------------------

\* C12: the documented deduplication rule gives every similarity in [0,1],
\* the boundary values 0.85 and 0.95 included, exactly one outcome: merged as
\* a duplicate above 0.95, joined to the cluster above 0.85 and not above
\* 0.95, a new cluster below 0.85.
C12_OneOutcome ==
  verdict # {"pending"} =>
    /\ Cardinality(verdict) = 1
    /\ (similarity > DuplicateThreshold => verdict = {"merge as duplicate"})
    /\ (similarity > ClusterThreshold /\ similarity <= DuplicateThreshold
          => verdict = {"cluster together"})
    /\ (similarity < ClusterThreshold => verdict = {"create new cluster"})

\* ------------------------------------------------------------------------
\* The deploy script and the Terraform graph: properties
\* ------------------------------------------------------------------------

\* the commands of the script that change the project
MutatingCommands ==
  {"gcloud services enable", "gcloud artifacts repositories create", "gsutil mb",
   "gsutil versioning set on", "gcloud projects add-iam-policy-binding",
   "gcloud secrets create", "gcloud secrets versions add"}

\* the run has ended with status 1 before any step after the checks
C13_Aborted ==
  /\ sh.pc = "exited"
  /\ sh.exitStatus = 1
  /\ sh.ran \subseteq {"check_prerequisites", "get_project_id", "configure_gcloud"}
  /\ {c.cmd : c \in sh.cmds} \cap MutatingCommands = {}

\* C13: the deploy script aborts with exit status 1 on each failed
\* precondition (gcloud, terraform or docker not installed; empty project ID;
\* billing not enabled) and then no later step runs: no API is enabled and no
\* repository, bucket, IAM binding or secret is created.
C13_Preconditions ==
  /\ ("check_prerequisites" \in sh.ran /\ \E tool \in Tools : tool \notin host.installed)
       => C13_Aborted
  /\ ("get_project_id" \in sh.ran /\ sh.PROJECT_ID = "") => C13_Aborted
  /\ ("configure_gcloud" \in sh.ran /\ ~cloud.billingEnabled) => C13_Aborted

C13_Witness ==
  /\ sh.pc = "exited"
  /\ sh.exitStatus = 1
  /\ host.installed = Tools
  /\ sh.PROJECT_ID = "news-prod"
  /\ "configure_gcloud" \in sh.ran
  /\ ~cloud.billingEnabled
  /\ cloud.apis = {}

\* C14: in the Terraform resource graph the Cloud SQL instance is created
\* only after the project APIs are enabled and after every resource of the
\* VPC module, the private services connection among them, has been created;
\* no apply order the graph allows creates the instance first.
C14_SqlAfterVpc ==
  "module.cloud_sql.google_sql_database_instance.main" \in tf.state \cup tf.failed =>
    /\ ApiResources \subseteq tf.state
    /\ TerraformApis \subseteq cloud.apis
    /\ VpcResources \subseteq tf.state
    /\ "module.vpc.google_service_networking_connection.private_vpc" \in tf.state

C14_Witness ==
  /\ tf.applying
  /\ "module.cloud_sql.google_sql_database_instance.main" \in tf.state
  /\ "module.vpc.google_service_networking_connection.private_vpc" \in tf.state
  /\ "module.redis.google_redis_instance.main" \notin tf.state
  /\ "module.cloud_sql.google_sql_user.main" \notin tf.state

\* C15: when the deploy script has run to completion and Terraform is then
\* applied, every secret a Cloud Run service or job refers to exists, created
\* by the script or by the secrets module, before that service or job is
\* created, and no secret ID is created by both the script and Terraform.
C15_SecretsReady ==
  /\ \A m \in ServiceModules \cup JobModules :
       Workload(m) \in tf.state => SecretsOf(m) \subseteq cloud.secrets
  /\ \A id \in cloud.secrets :
       ~(<<"script", id>> \in cloud.secretCreates /\ <<"terraform", id>> \in cloud.secretCreates)

\* C16: after create_terraform_state_bucket has run, the bucket of the gcs
\* backend block of infra/terraform/main.tf is '<PROJECT_ID>-tfstate', the
\* bucket the script has just ensured exists.
C16_BackendBucket ==
  "create_terraform_state_bucket" \in sh.ran =>
    /\ host.backendBucket = sh.PROJECT_ID \o "-tfstate"
    /\ host.backendBucket = sh.BUCKET_NAME
    /\ host.backendBucket \in cloud.buckets

\* terraform apply tfplan is issued by this step
C17_Applies == Cmd("terraform apply", "tfplan") \in sh'.last /\ sh' # sh

C17_Step ==
  /\ C17_Applies =>
       /\ sh.RUN_TF = Yes
       /\ sh.APPLY_CONFIRM = Yes
       /\ {Cmd("terraform init", "-reconfigure"), Cmd("terraform plan", "-out=tfplan")}
            \subseteq sh.cmds
       /\ sh.pc # "exited"
  /\ (sh.pc = "read RUN_TF" /\ sh' # sh /\ sh'.RUN_TF # Yes) => sh'.pc = "print_next_steps"
  /\ (sh.pc = "read APPLY_CONFIRM" /\ sh' # sh /\ sh'.APPLY_CONFIRM # Yes)
       => sh'.pc = "print_next_steps"

C17_State ==
  /\ "terraform apply" \in sh.ran => (sh.RUN_TF = Yes /\ sh.APPLY_CONFIRM = Yes)
  /\ (sh.pc = "exited" /\ "read RUN_TF" \in sh.ran
        /\ (sh.RUN_TF # Yes \/ ("read APPLY_CONFIRM" \in sh.ran /\ sh.APPLY_CONFIRM # Yes)))
       => /\ "print_next_steps" \in sh.ran
          /\ "terraform apply" \notin sh.ran
          /\ sh.exitStatus = 0

\* C17: 'terraform apply tfplan' is executed only if the answer was exactly
\* 'yes' both to the 'run Terraform now' prompt and to the confirmation, and
\* only after terraform init and terraform plan succeeded in the same run;
\* any other answer skips the apply and the script goes on to print_next_steps.
C17_Apply == [](C17_State) /\ [][C17_Step]_vars

C17_Witness ==
  /\ sh.pc = "exited"
  /\ sh.exitStatus = 0
  /\ sh.RUN_TF = Yes
  /\ sh.APPLY_CONFIRM = <<"YES">>
  /\ "terraform plan" \in sh.ran
  /\ "terraform apply" \notin sh.ran
  /\ "print_next_steps" \in sh.ran

\* the secrets create_secret is called for at a position of the script
C18_SecretsAt(pc) ==
  IF pc = "generate_secrets"
    THEN {"django-secret-key", "encryption-key", "nextauth-secret", "database-password"}
    ELSE {}

C18_Step ==
  sh' # sh =>
    /\ \A c \in sh'.last :
         /\ c.cmd = "gcloud artifacts repositories create" => c.arg \notin cloud.repositories
         /\ c.cmd = "gsutil mb" => c.arg \notin cloud.buckets
         /\ c.cmd = "gcloud secrets create" => c.arg \notin cloud.secrets
         /\ c.cmd = "gcloud secrets versions add" => c.arg \in cloud.secrets
    /\ \A name \in C18_SecretsAt(sh.pc) :
         /\ name \in cloud.secrets => Cmd("gcloud secrets versions add", name) \in sh'.last
         /\ name \notin cloud.secrets => Cmd("gcloud secrets create", name) \in sh'.last

\* C18: re-running the deploy script creates nothing twice: for the Artifact
\* Registry repository, the state bucket and every secret a create command is
\* issued only when the existence check before it fails; a secret that exists
\* gets a new version instead, and no create is issued for what exists.
C18_Idempotent == [][C18_Step]_vars

C18_Witness ==
  /\ sh.run = 2
  /\ sh.pc = "prompt_for_manual_secrets"
  /\ Cmd("gcloud secrets versions add", "django-secret-key") \in sh.last
  /\ Cmd("gcloud secrets create", "django-secret-key") \notin sh.cmds
  /\ "gcloud artifacts repositories create" \notin {c.cmd : c \in sh.cmds}
  /\ "gsutil mb" \notin {c.cmd : c \in sh.cmds}
  /\ "create_terraform_state_bucket" \in sh.ran

====
